---- MODULE Spec2Model ----
(***************************************************************************)
(* Extraction repair and cross-validation engine of ibanalystagent         *)
(* (test.py and python_ml/extract_financials_from_pdfs.py).                *)
(*                                                                         *)
(* Numbers.  A Python float is modelled as an exact rational with a        *)
(* decimal exponent, [n |-> numerator, d |-> denominator, e |-> exponent], *)
(* standing for (n / d) * 10^e, kept in a canonical form (d > 0 coprime to *)
(* n and to 10, n not a multiple of 10, zero is [0, 1, 0]) so that record  *)
(* equality is numeric equality.  Arithmetic is exact: binary rounding of  *)
(* IEEE doubles is not modelled.                                           *)
(*                                                                         *)
(* Text.  A Python str is modelled as a sequence of symbols.  A symbol is  *)
(* a record [w |-> lower-case spelling, c |-> casing]: a whole word, or a  *)
(* single digit, punctuation mark or white-space character.  Casing is     *)
(* 0 (lower or caseless), 1 (Capitalised) or 2 (UPPER).  Substring tests   *)
(* are contiguous-subsequence tests, so they are exact for digits and      *)
(* punctuation and treat a word as one letter.                             *)
(***************************************************************************)
EXTENDS Integers, Sequences, FiniteSets, TLC

(***************************************************************************)
(* Exact arithmetic                                                        *)
(***************************************************************************)
Abs(i) == IF i < 0 THEN -i ELSE i

Sign(i) == IF i < 0 THEN -1 ELSE IF i = 0 THEN 0 ELSE 1

RECURSIVE Gcd(_, _)
Gcd(a, b) == IF b = 0 THEN a ELSE Gcd(b, a % b)

RECURSIVE Pow10(_)
Pow10(k) == IF k <= 0 THEN 1 ELSE 10 * Pow10(k - 1)

\* number of decimal digits of a positive integer
RECURSIVE NDig(_)
NDig(i) == IF i < 10 THEN 1 ELSE 1 + NDig(i \div 10)

RECURSIVE Canon(_, _, _)
Canon(n, d, e) ==
    IF n = 0 THEN [n |-> 0, d |-> 1, e |-> 0]
    ELSE IF d < 0 THEN Canon(-n, -d, e)
    ELSE IF Gcd(Abs(n), d) > 1
         THEN Canon(n \div Gcd(Abs(n), d), d \div Gcd(Abs(n), d), e)
    ELSE IF d % 2 = 0 THEN Canon(5 * n, d \div 2, e - 1)
    ELSE IF d % 5 = 0 THEN Canon(2 * n, d \div 5, e - 1)
    ELSE IF n % 10 = 0 THEN Canon(n \div 10, d, e + 1)
    ELSE [n |-> n, d |-> d, e |-> e]

\* the float m * 10^e
Dec(m, e) == Canon(m, 1, e)

FromInt(i) == Canon(i, 1, 0)

Zero == FromInt(0)

\* sign of a - b for positive mantissas p * 10^ep and q * 10^eq
CmpPos(p, ep, q, eq) ==
    IF NDig(p) + ep # NDig(q) + eq
    THEN (IF NDig(p) + ep > NDig(q) + eq THEN 1 ELSE -1)
    ELSE IF NDig(p) >= NDig(q)
         THEN Sign(p - q * Pow10(NDig(p) - NDig(q)))
         ELSE Sign(p * Pow10(NDig(q) - NDig(p)) - q)

\* sign of a - b
Cmp(a, b) ==
    LET p == a.n * b.d
        q == b.n * a.d
    IN  IF Sign(p) # Sign(q) THEN (IF Sign(p) > Sign(q) THEN 1 ELSE -1)
        ELSE IF p = 0 THEN 0
        ELSE IF p > 0 THEN CmpPos(p, a.e, q, b.e)
        ELSE CmpPos(-q, b.e, -p, a.e)

Lt(a, b) == Cmp(a, b) < 0
Le(a, b) == Cmp(a, b) <= 0
Gt(a, b) == Cmp(a, b) > 0
Ge(a, b) == Cmp(a, b) >= 0

AbsNum(a) == [a EXCEPT !.n = Abs(a.n)]

Mul(a, b) == Canon(a.n * b.n, a.d * b.d, a.e + b.e)

\* a / b, b # 0
Div(a, b) == Canon(a.n * b.d, a.d * b.n, a.e - b.e)

Add(a, b) ==
    LET e == IF a.e < b.e THEN a.e ELSE b.e
    IN  Canon(a.n * b.d * Pow10(a.e - e) + b.n * a.d * Pow10(b.e - e), a.d * b.d, e)

Sub(a, b) == Add(a, [b EXCEPT !.n = -b.n])

(***************************************************************************)
(* Text                                                                    *)
(***************************************************************************)
T(w) == [w |-> w, c |-> 0]

Cap(w) == [w |-> w, c |-> 1]

Up(w) == [w |-> w, c |-> 2]

SP == T(" ")

NL == T("\n")

IsSpace(t) == t.w \in {" ", "\n", "\t"}

\* the words of ws separated by single blanks
Words(ws) ==
    IF Len(ws) = 0 THEN << >>
    ELSE [i \in 1..(2 * Len(ws) - 1) |-> IF i % 2 = 1 THEN ws[(i + 1) \div 2] ELSE SP]

\* str.lower()
Lower(s) == [i \in 1..Len(s) |-> [s[i] EXCEPT !.c = 0]]

\* p in s
Contains(s, p) ==
    \/ Len(p) = 0
    \/ \E i \in 1..(Len(s) - Len(p) + 1) : SubSeq(s, i, i + Len(p) - 1) = p

\* the one-character horizontal ellipsis (U+2026)
ELLIPSIS == T("ELLIPSIS")

\* len(s): the number of characters
RECURSIVE CharLen(_)
CharLen(s) ==
    IF Len(s) = 0 THEN 0
    ELSE IF Len(s) = 1 THEN (IF s[1] = ELLIPSIS THEN 1 ELSE Len(s[1].w))
    ELSE CharLen(SubSeq(s, 1, Len(s) \div 2)) + CharLen(SubSeq(s, Len(s) \div 2 + 1, Len(s)))

\* s.replace(ELLIPSIS, "...")
RECURSIVE ReplaceEllipsis(_)
ReplaceEllipsis(s) ==
    IF Len(s) = 0 THEN << >>
    ELSE IF Len(s) = 1 THEN (IF s[1] = ELLIPSIS THEN << T("."), T("."), T(".") >> ELSE s)
    ELSE ReplaceEllipsis(SubSeq(s, 1, Len(s) \div 2))
            \o ReplaceEllipsis(SubSeq(s, Len(s) \div 2 + 1, Len(s)))

\* re.sub(r"\s+", " ", s)
\* (each run of whitespace leaves one blank, at the place of its last character)
CollapseSpaces(s) ==
    SelectSeq([i \in 1..Len(s) |->
                  IF ~IsSpace(s[i]) THEN s[i]
                  ELSE IF i < Len(s) /\ IsSpace(s[i + 1]) THEN T("") ELSE SP],
              LAMBDA t : t # T(""))

\* str.strip()
RECURSIVE Strip(_)
Strip(s) ==
    IF Len(s) > 0 /\ IsSpace(s[1]) THEN Strip(Tail(s))
    ELSE IF Len(s) > 0 /\ IsSpace(s[Len(s)]) THEN Strip(SubSeq(s, 1, Len(s) - 1))
    ELSE s

norm_spaces(s) == Strip(CollapseSpaces(ReplaceEllipsis(s)))

(***************************************************************************)
(* Configuration tables                                                    *)
(***************************************************************************)
METRICS == << "revenue", "ebitda", "pat", "eps", "networth", "total_assets" >>

MetricSet == { METRICS[i] : i \in 1..Len(METRICS) }

ScaleMetrics == << "revenue", "ebitda", "pat", "networth", "total_assets" >>

KEYWORDS(m) ==
    CASE m = "revenue" ->
           << Words(<< Cap("value"), T("of"), Cap("sales") >>),
              Words(<< Cap("sales"), T("&"), Cap("services") >>),
              << Cap("revenue") >>,
              Words(<< Cap("total"), T("income") >>),
              << Cap("income") >>,
              Words(<< Cap("total"), Cap("revenue") >>) >>
      [] m = "ebitda" ->
           << << Up("ebitda") >>,
              << Up("ebdit") >>,
              Words(<< Cap("earnings"), Cap("before"), Cap("depreciation") >>),
              Words(<< Cap("operating"), Up("ebitda") >>),
              Words(<< Cap("operating"), Cap("income") >>),
              Words(<< Cap("operating"), T("income") >>),
              Words(<< Cap("income"), T("from"), T("operations") >>) >>
      [] m = "pat" ->
           << Words(<< Up("profit"), Up("after"), Up("tax") >>),
              Words(<< Cap("profit"), T("after"), T("tax") >>),
              << Up("pat") >>,
              Words(<< Cap("profit"), T("for"), T("the"), T("year") >>),
              Words(<< Cap("net"), Cap("profit") >>),
              Words(<< Cap("net"), T("profit") >>),
              Words(<< Cap("net"), Cap("income") >>),
              Words(<< Cap("net"), T("income") >>) >>
      [] m = "eps" ->
           << Words(<< Cap("earnings"), Cap("per"), Cap("equity"), Cap("share") >>),
              << Cap("basic"), SP, T("("), T("in") >>,
              << Up("eps") >>,
              Words(<< Cap("earnings"), T("per"), T("share") >>),
              << Cap("diluted") >> >>
      [] m = "networth" ->
           << Words(<< Cap("total"), Cap("equity") >>),
              Words(<< Cap("total"), T("equity") >>),
              Words(<< Cap("total"), Cap("equity"), T("attributable") >>),
              << Cap("equity") >>,
              Words(<< Cap("net"), T("worth") >>),
              << Cap("shareholders"), T("'"), SP, T("funds") >>,
              << Cap("stockholders"), T("'"), SP, Cap("equity") >> >>
      [] m = "total_assets" ->
           << Words(<< Cap("total"), Cap("assets") >>),
              << Cap("assets") >> >>
      [] OTHER -> << >>

ANCHORS(m) ==
    CASE m = "eps" ->
           << Words(<< T("earnings"), T("per"), T("equity"), T("share") >>),
              << T("basic") >>,
              << T("diluted") >> >>
      [] m = "pat" -> << << T("owners") >>, << T("attributable") >> >>
      [] m = "networth" -> << Words(<< T("total"), T("equity") >>) >>
      [] OTHER -> << >>

CRORE_TO_INR == 10000000

\* 1e9 of looks_like_inr_not_crore
INR_THRESHOLD == 1000000000

\* 10_000 of the EPS rescaling
EPS_LIMIT == 10000

(***************************************************************************)
(* Utility predicates                                                      *)
(***************************************************************************)
\* a variant with a strict comparison: the boundary value 1e9 is left alone
looks_like_inr_not_crore_strict(v) == Gt(v, FromInt(INR_THRESHOLD))

looks_like_inr_not_crore(v) == Ge(v, FromInt(INR_THRESHOLD))

snippet_has_total_equity(sn) ==
    LET s == Lower(norm_spaces(sn))
    IN  \/ Contains(s, Words(<< T("total"), T("equity") >>))
        \/ Contains(s, Words(<< T("total"), T("equity"), T("attributable") >>))

snippet_looks_like_components(sn) ==
    LET s == Lower(norm_spaces(sn))
    IN  \/ Contains(s, Words(<< T("equity"), T("share"), T("capital") >>))
        \/ Contains(s, Words(<< T("other"), T("equity") >>))

eps_snippet_is_diluted(sn) ==
    LET s == Lower(norm_spaces(sn))
    IN  Contains(s, << T("diluted") >>) /\ ~Contains(s, << T("basic") >>)

\* any(k.lower() in t for k in phrases)
AnyPhraseIn(t, phrases) == \E i \in 1..Len(phrases) : Contains(t, Lower(phrases[i]))

\* a variant that tests the keywords and the PAT snippet but not the anchors
PassesConstraints_no_anchors(metric, t, sn) ==
    /\ ~(Len(KEYWORDS(metric)) > 0 /\ ~AnyPhraseIn(t, KEYWORDS(metric)))
    /\ ~(/\ metric = "pat"
         /\ (Contains(sn, << T("owners") >>) \/ Contains(sn, << T("attributable") >>))
         /\ ~Contains(t, << T("owners") >>)
         /\ ~Contains(t, << T("attributable") >>))

\* the three tests of page_passes_constraints on the normalised, lower-cased
\* page text t and snippet sn
PassesConstraints(metric, t, sn) ==
    /\ ~(Len(KEYWORDS(metric)) > 0 /\ ~AnyPhraseIn(t, KEYWORDS(metric)))
    /\ ~(Len(ANCHORS(metric)) > 0 /\ ~AnyPhraseIn(t, ANCHORS(metric)))
    /\ ~(/\ metric = "pat"
         /\ (Contains(sn, << T("owners") >>) \/ Contains(sn, << T("attributable") >>))
         /\ ~Contains(t, << T("owners") >>)
         /\ ~Contains(t, << T("attributable") >>))

page_passes_constraints(metric, page_text, snippet) ==
    PassesConstraints(metric, Lower(norm_spaces(page_text)), Lower(norm_spaces(snippet)))

(***************************************************************************)
(* Rendering of numbers as text (values with denominator 1)                *)
(***************************************************************************)
DIGITS == << "0", "1", "2", "3", "4", "5", "6", "7", "8", "9" >>

\* str(i) for i >= 0, one symbol per digit
RECURSIVE DigitsOf(_)
DigitsOf(i) ==
    IF i < 10 THEN << T(DIGITS[i + 1]) >>
    ELSE DigitsOf(i \div 10) \o << T(DIGITS[(i % 10) + 1]) >>

RECURSIVE Zeros(_)
Zeros(k) == IF k <= 0 THEN << >> ELSE << T("0") >> \o Zeros(k - 1)

\* the digits of |val| * 10^k rounded to an integer, ties to even
ScaledRoundDigits(val, k) ==
    LET a == Abs(val.n)
        f == val.e + k
    IN  IF f >= 0 THEN (IF a = 0 THEN << T("0") >> ELSE DigitsOf(a) \o Zeros(f))
        ELSE IF -f > 9 THEN << T("0") >>
        ELSE LET q == a \div Pow10(-f)
                 r == a % Pow10(-f)
                 half == 5 * Pow10(-f - 1)
             IN  DigitsOf(IF r > half \/ (r = half /\ q % 2 = 1) THEN q + 1 ELSE q)

\* str(int(round(val)))
StrRoundInt(val) ==
    LET ds == ScaledRoundDigits(val, 0)
    IN  IF val.n < 0 /\ (\E i \in 1..Len(ds) : ds[i] # T("0")) THEN << T("-") >> \o ds ELSE ds

\* f"{val:.<k>f}", k >= 1
FormatFixed(val, k) ==
    LET ds == ScaledRoundDigits(val, k)
        padded == IF Len(ds) < k + 1 THEN Zeros(k + 1 - Len(ds)) \o ds ELSE ds
        body == SubSeq(padded, 1, Len(padded) - k) \o << T(".") >>
                  \o SubSeq(padded, Len(padded) - k + 1, Len(padded))
    IN  IF val.n < 0 THEN << T("-") >> \o body ELSE body

\* s.rstrip(ch)
RECURSIVE RStrip(_, _)
RStrip(s, ch) ==
    IF Len(s) > 0 /\ s[Len(s)] = T(ch) THEN RStrip(SubSeq(s, 1, Len(s) - 1), ch) ELSE s

\* f"{n:,}" applied to the digits ds of |n|
RECURSIVE GroupThousands(_)
GroupThousands(ds) ==
    IF Len(ds) <= 3 THEN ds
    ELSE GroupThousands(SubSeq(ds, 1, Len(ds) - 3)) \o << T(",") >>
           \o SubSeq(ds, Len(ds) - 2, Len(ds))

comma_international(s) ==
    IF Len(s) > 0 /\ s[1] = T("-")
    THEN << T("-") >> \o GroupThousands(Tail(s))
    ELSE GroupThousands(s)

\* the loop of comma_indian: rest is cut into pairs from the right, the
\* result lists the parts left to right, each followed by a comma
RECURSIVE IndianParts(_)
IndianParts(rest) ==
    IF Len(rest) > 2
    THEN IndianParts(SubSeq(rest, 1, Len(rest) - 2))
           \o SubSeq(rest, Len(rest) - 1, Len(rest)) \o << T(",") >>
    ELSE IF Len(rest) > 0 THEN rest \o << T(",") >>
    ELSE << >>

\* comma_indian works on the characters of str(n), a sign included
comma_indian(s) ==
    IF Len(s) <= 3 THEN s
    ELSE LET parts == IndianParts(SubSeq(s, 1, Len(s) - 3))
         IN  (IF Len(parts) = 0 THEN << T(",") >> ELSE parts)
               \o SubSeq(s, Len(s) - 2, Len(s))

\* cands of find_best_page_by_number
NumberCandidates(val) ==
    { StrRoundInt(val),
      RStrip(RStrip(FormatFixed(val, 2), "0"), "."),
      RStrip(RStrip(FormatFixed(val, 1), "0"), "."),
      comma_international(StrRoundInt(val)),
      comma_indian(StrRoundInt(val)) }

(***************************************************************************)
(* Page repair.  A document is the sequence of its pages' texts; an        *)
(* Optional[int] is << >> (None) or << p >>.                               *)
(***************************************************************************)
\* snippet[:n]; a cut that falls inside a word keeps the symbols before it
RECURSIVE TakeChars(_, _)
TakeChars(s, n) ==
    IF Len(s) = 0 \/ CharLen(<< s[1] >>) > n THEN << >>
    ELSE << s[1] >> \o TakeChars(Tail(s), n - CharLen(<< s[1] >>))

\* `return pno + 1` at the first page that hits, None when no page does
LowestPage(hits) ==
    IF hits = {} THEN << >> ELSE << CHOOSE p \in hits : \A q \in hits : p <= q >>

\* anchors of find_best_page_by_snippet for the normalised snippet sn
SnippetAnchors(sn) ==
    { sn }
      \cup (IF CharLen(sn) > 160 THEN { TakeChars(sn, 160) } ELSE {})
      \cup (IF CharLen(sn) > 120 THEN { TakeChars(sn, 120) } ELSE {})
      \cup (IF CharLen(sn) > 80 THEN { TakeChars(sn, 80) } ELSE {})

\* a variant without the test of the snippet's length
FindByNormalisedSnippet_any_length(doc, metric, sn) ==
    IF Len(sn) = 0 THEN << >>
    ELSE LowestPage({ p \in 1..Len(doc) :
                        /\ page_passes_constraints(metric, doc[p], sn)
                        /\ \E a \in SnippetAnchors(sn) : Contains(norm_spaces(doc[p]), a) })

\* the body of find_best_page_by_snippet after snippet = norm_spaces(snippet)
FindByNormalisedSnippet(doc, metric, sn) ==
    IF Len(sn) = 0 \/ CharLen(sn) < 10 THEN << >>
    ELSE LowestPage({ p \in 1..Len(doc) :
                        /\ page_passes_constraints(metric, doc[p], sn)
                        /\ \E a \in SnippetAnchors(sn) : Contains(norm_spaces(doc[p]), a) })

find_best_page_by_snippet(doc, metric, snippet) ==
    FindByNormalisedSnippet(doc, metric, norm_spaces(snippet))

\* a variant that searches every page, gated or not
find_best_page_by_number_ungated(doc, metric, val) ==
    IF val.n = 0 THEN << >>
    ELSE LowestPage({ p \in 1..Len(doc) :
                        \E c \in NumberCandidates(val) : Contains(doc[p], c) })

find_best_page_by_number(doc, metric, val) ==
    IF val.n = 0 THEN << >>
    ELSE LowestPage({ p \in 1..Len(doc) :
                        /\ page_passes_constraints(metric, doc[p], << >>)
                        /\ \E c \in NumberCandidates(val) : Contains(doc[p], c) })

\* the page test shared by repair_sources, repair_single_source_page and
\* highlight_pdf
PageOutOfRange(doc, p) == p <= 0 \/ p > Len(doc)

\* a variant without the fallback to number search
FirstFound_snippet_only(bySnippet, byNumber) == bySnippet

\* newp = bySnippet; if newp is None: newp = byNumber
FirstFound(bySnippet, byNumber) == IF Len(bySnippet) = 0 THEN byNumber ELSE bySnippet

\* the search of repair_sources and repair_single_source_page
ResolvePage(doc, metric, snippet, val) ==
    FirstFound(find_best_page_by_snippet(doc, metric, snippet),
               find_best_page_by_number(doc, metric, val))

\* a variant that overwrites the page wherever the search finds one, in
\* range or not
WithResolvedPage_any_page(doc, mv, newp) ==
    IF Len(newp) > 0 THEN [mv EXCEPT !.page = newp[1]] ELSE mv

\* the entry after `if newp is not None: ...["source"]["page"] = int(newp)`
WithResolvedPage(doc, mv, newp) ==
    IF PageOutOfRange(doc, mv.page) /\ Len(newp) > 0
    THEN [mv EXCEPT !.page = newp[1]]
    ELSE mv

\* what one iteration of repair_sources appends to repairs
OutcomeFor(doc, m, mv, newp) ==
    IF ~PageOutOfRange(doc, mv.page) THEN << >>
    ELSE IF Len(newp) > 0
         THEN << [metric |-> m, kind |-> "moved", p0 |-> mv.page, p1 |-> newp[1]] >>
         ELSE << [metric |-> m, kind |-> "unresolved", p0 |-> mv.page, p1 |-> mv.page] >>

RepairOutcome(doc, m, mv) ==
    OutcomeFor(doc, m, mv, ResolvePage(doc, m, mv.snippet, mv.value))

\* the metrics of year_obj after repair_sources
repair_sources(doc, metrics) ==
    [m \in MetricSet |->
        WithResolvedPage(doc, metrics[m],
                         ResolvePage(doc, m, metrics[m].snippet, metrics[m].value))]

RECURSIVE RepairLog(_, _, _)
RepairLog(doc, metrics, i) ==
    IF i > Len(METRICS) THEN << >>
    ELSE RepairOutcome(doc, METRICS[i], metrics[METRICS[i]])
           \o RepairLog(doc, metrics, i + 1)

\* the list repair_sources returns
repair_sources_result(doc, metrics) == RepairLog(doc, metrics, 1)

\* repair_single_source_page on a stand-alone reply
repair_single_source_page(doc, metric, reply, fallback_val) ==
    WithResolvedPage(doc, reply, ResolvePage(doc, metric, reply.snippet, fallback_val))

(***************************************************************************)
(* Unit normalization and targeted re-extraction.  A metric entry is       *)
(* [value, page, section, snippet]; an EPS-only reply adds basis and       *)
(* scope.  An absent or empty string is << >>.                             *)
(***************************************************************************)
\* the loop of normalize_units_in_place over the scale-sensitive metrics
NormalizedScale(mv) ==
    IF mv.value.n # 0 /\ looks_like_inr_not_crore(mv.value)
    THEN [mv EXCEPT !.value = Div(mv.value, FromInt(CRORE_TO_INR))]
    ELSE mv

\* the EPS rescaling of normalize_units_in_place and apply_eps_only
RescaledEps(v) ==
    IF Gt(v, FromInt(EPS_LIMIT)) THEN Div(v, FromInt(CRORE_TO_INR)) ELSE v

normalize_units_in_place(metrics) ==
    [m \in MetricSet |->
        IF \E i \in 1..Len(ScaleMetrics) : ScaleMetrics[i] = m THEN NormalizedScale(metrics[m])
        ELSE IF m = "eps" THEN [metrics[m] EXCEPT !.value = RescaledEps(metrics[m].value)]
        ELSE metrics[m]]

\* "basic" not in s and "diluted" not in s
NamesNoBasis(s) == ~Contains(s, << T("basic") >>) /\ ~Contains(s, << T("diluted") >>)

\* a variant that accepts a diluted-only snippet
needs_eps_fix_diluted_ok(year_obj) ==
    \/ Le(year_obj.metrics["eps"].value, Zero)
    \/ NamesNoBasis(Lower(norm_spaces(year_obj.metrics["eps"].snippet)))

needs_eps_fix(year_obj) ==
    \/ Le(year_obj.metrics["eps"].value, Zero)
    \/ NamesNoBasis(Lower(norm_spaces(year_obj.metrics["eps"].snippet)))
    \/ eps_snippet_is_diluted(year_obj.metrics["eps"].snippet)

\* (eps_only.get(key, "") or default).lower().strip()
FieldOrDefault(field, default) ==
    Strip(Lower(IF Len(field) = 0 THEN default ELSE field))

\* repair_single_source_page(pdf_path, metric, obj, fallback_val=obj["value"])
RepairedReply(doc, metric, obj) ==
    repair_single_source_page(doc, metric, obj, obj.value)

\* a variant that does not check the labelling of scope "total"
ScopeLabelled_total_unchecked(scope, s) ==
    IF scope = << T("continuing") >> THEN Contains(s, << T("continuing") >>) ELSE TRUE

\* the scope labelling test on the lower-cased snippet s
ScopeLabelled(scope, s) ==
    IF scope = << T("total") >>
    THEN Contains(s, Words(<< T("continuing"), T("and"), T("discontinued") >>))
    ELSE IF scope = << T("continuing") >>
         THEN Contains(s, << T("continuing") >>)
         ELSE TRUE

\* the three early returns of apply_eps_only, negated
EpsGateOn(eps_v, scope, s) ==
    /\ ~Le(eps_v, Zero)
    /\ ~NamesNoBasis(s)
    /\ ScopeLabelled(scope, s)

\* the acceptance gate of apply_eps_only
EpsGate(eps_only) ==
    EpsGateOn(eps_only.value, FieldOrDefault(eps_only.scope, << T("total") >>),
              Lower(norm_spaces(eps_only.snippet)))

\* a variant that records the marks but keeps the old EPS entry
EpsAccepted_marks_only(year_obj, basis, scope, cand) ==
    [year_obj EXCEPT
        !.eps_basis = IF basis = << T("diluted") >> THEN << T("diluted") >> ELSE << T("basic") >>,
        !.eps_scope = scope]

\* the three assignments that end apply_eps_only
EpsAccepted(year_obj, basis, scope, cand) ==
    [year_obj EXCEPT
        !.eps_basis = IF basis = << T("diluted") >> THEN << T("diluted") >> ELSE << T("basic") >>,
        !.eps_scope = scope,
        !.metrics["eps"] = [value |-> cand.value, page |-> cand.page,
                            section |-> cand.section, snippet |-> cand.snippet]]

apply_eps_only(doc, year_obj, eps_only) ==
    IF ~EpsGate(eps_only) THEN year_obj
    ELSE EpsAccepted(year_obj,
                     FieldOrDefault(eps_only.basis, << T("basic") >>),
                     FieldOrDefault(eps_only.scope, << T("total") >>),
                     RepairedReply(doc, "eps",
                                   [eps_only EXCEPT !.value = RescaledEps(eps_only.value)]))

\* a variant that triggers on component snippets only
needs_networth_fix_components_only(year_obj) ==
    \/ Le(year_obj.metrics["networth"].value, Zero)
    \/ (/\ snippet_looks_like_components(year_obj.metrics["networth"].snippet)
        /\ ~snippet_has_total_equity(year_obj.metrics["networth"].snippet))

needs_networth_fix(year_obj) ==
    \/ Le(year_obj.metrics["networth"].value, Zero)
    \/ (/\ snippet_looks_like_components(year_obj.metrics["networth"].snippet)
        /\ ~snippet_has_total_equity(year_obj.metrics["networth"].snippet))
    \/ ~snippet_has_total_equity(year_obj.metrics["networth"].snippet)

\* a variant that accepts any positive value
NetworthGate_value_only(cand) == Gt(cand.value, Zero)

\* the acceptance gate of apply_networth_only on the processed reply
NetworthGate(cand) == Gt(cand.value, Zero) /\ snippet_has_total_equity(cand.snippet)

NetworthAccepted(year_obj, cand) ==
    IF NetworthGate(cand) THEN [year_obj EXCEPT !.metrics["networth"] = cand] ELSE year_obj

apply_networth_only(doc, year_obj, nw_only) ==
    NetworthAccepted(year_obj, RepairedReply(doc, "networth", NormalizedScale(nw_only)))

\* `if safe_num(attrib.get("value", 0)) > 0:` on the rescaled reply
\* variant: the reply is attached whatever its value
AttribAttached_any(doc, year_obj, rescaled) ==
    [year_obj EXCEPT !.attrib = << RepairedReply(doc, "pat", rescaled) >>]

AttribAttached(doc, year_obj, rescaled) ==
    IF Gt(rescaled.value, Zero)
    THEN [year_obj EXCEPT !.attrib = << RepairedReply(doc, "pat", rescaled) >>]
    ELSE year_obj

\* the PAT-attributable block of main: the year record after the reply
attach_pat_attrib(doc, year_obj, attrib) ==
    AttribAttached(doc, year_obj, NormalizedScale(attrib))

(***************************************************************************)
(* Bounded inputs: page texts, documents, oracle replies                   *)
(***************************************************************************)
\* pages per document
MaxPages == 2

\* "1,234,567"
Txt1234567 ==
    << T("1"), T(","), T("2"), T("3"), T("4"), T(","), T("5"), T("6"), T("7") >>

Txt520 == << T("5"), T("."), T("2"), T("0") >>

Txt5000 == << T("5"), T(","), T("0"), T("0"), T("0") >>

SnipRevenue ==
    Words(<< Cap("revenue"), T("from"), T("operations") >>) \o << SP >> \o Txt1234567

SnipEbitda == << Up("ebitda"), SP, T("3"), T("0"), T("0") >>

SnipPat ==
    Words(<< Cap("profit"), T("for"), T("the"), T("year"), T("attributable"),
             T("to"), T("owners") >>) \o << SP, T("1"), T("0"), T("0") >>

\* "Basic EPS: 5.20, Continuing and Discontinued operations"
SnipEpsBasicTotal ==
    << Cap("basic"), SP, Up("eps"), T(":"), SP >> \o Txt520 \o << T(","), SP >>
      \o Words(<< Cap("continuing"), T("and"), Cap("discontinued"), T("operations") >>)

\* "Diluted EPS: 5.20"
SnipEpsDiluted == << Cap("diluted"), SP, Up("eps"), T(":"), SP >> \o Txt520

\* "Diluted EPS: 5.20, Continuing and Discontinued operations"
SnipEpsDilutedTotal ==
    SnipEpsDiluted \o << T(","), SP >>
      \o Words(<< Cap("continuing"), T("and"), Cap("discontinued"), T("operations") >>)

\* "EPS for the year 5.20"
SnipEpsBare == Words(<< Up("eps"), T("for"), T("the"), T("year") >>) \o << SP >> \o Txt520

\* "Basic and Diluted EPS 5.20 Continuing operations"
SnipEpsContinuing ==
    Words(<< Cap("basic"), T("and"), Cap("diluted"), Up("eps") >>) \o << SP >> \o Txt520
      \o << SP >> \o Words(<< Cap("continuing"), T("operations") >>)

SnipTotalEquity == Words(<< Cap("total"), Cap("equity") >>) \o << SP >> \o Txt5000

\* "Equity Share Capital 1,000 Total Equity 5,000"
SnipComponentsTotal ==
    Words(<< Cap("equity"), Cap("share"), Cap("capital") >>)
      \o << SP, T("1"), T(","), T("0"), T("0"), T("0"), SP >> \o SnipTotalEquity

\* "Other Equity 4,000"
SnipOtherEquity ==
    Words(<< Cap("other"), Cap("equity") >>) \o << SP, T("4"), T(","), T("0"), T("0"), T("0") >>

\* "Shareholders' funds 5,000"
SnipFunds == << Cap("shareholders"), T("'"), SP, T("funds"), SP >> \o Txt5000

SnipTotalAssets == Words(<< Cap("total"), Cap("assets") >>) \o << SP, T("9"), T(","), T("0"), T("0"), T("0") >>

\* "Other income 100"
SnipOtherIncome == Words(<< Cap("other"), T("income") >>) \o << SP, T("1"), T("0"), T("0") >>

\* statement of profit and loss
PageIncome ==
    SnipRevenue \o << NL >> \o SnipEbitda \o << NL >> \o SnipPat \o << NL >>
      \o SnipEpsBasicTotal

\* balance sheet
PageBalance ==
    SnipTotalEquity \o << NL >> \o SnipTotalAssets \o << NL >> \o SnipOtherIncome

RECURSIVE SeqsUpTo(_, _)
SeqsUpTo(S, k) ==
    IF k = 0 THEN { << >> }
    ELSE SeqsUpTo(S, k - 1)
           \cup { Append(q, x) : q \in { r \in SeqsUpTo(S, k - 1) : Len(r) = k - 1 }, x \in S }

Docs == { d \in SeqsUpTo({ PageIncome, PageBalance }, MaxPages) : Len(d) >= 1 }

\* citation pages an oracle may return: negative, unknown, valid, beyond the end
InputPages == { -1, 0, 1, MaxPages + 1 }

Entry(v, p, sn) == [value |-> v, page |-> p, section |-> << Cap("consolidated") >>, snippet |-> sn]

BaseMetrics ==
    [m \in MetricSet |->
        CASE m = "revenue" -> Entry(FromInt(1234567), 1, SnipRevenue)
          [] m = "ebitda" -> Entry(FromInt(300), 1, SnipEbitda)
          [] m = "pat" -> Entry(FromInt(100), 1, SnipPat)
          [] m = "eps" -> Entry(Dec(52, -1), 1, SnipEpsBasicTotal)
          [] m = "networth" -> Entry(FromInt(5000), 1, SnipTotalEquity)
          [] m = "total_assets" -> Entry(FromInt(9000), 1, SnipTotalAssets)]

\* what the extraction prompt asks for when a metric is not found
EmptyMetrics ==
    [m \in MetricSet |-> [value |-> Zero, page |-> 0, section |-> << >>, snippet |-> << >>]]

MetricValues(m) ==
    CASE m = "eps" -> { Dec(52, -1), Zero, FromInt(-1), Dec(52, 6) }
      [] m = "networth" -> { FromInt(5000), Zero, Dec(5, 10) }
      [] m \in { "revenue", "pat" } ->
           { BaseMetrics[m].value, Zero, Mul(BaseMetrics[m].value, FromInt(CRORE_TO_INR)) }
      [] OTHER -> { BaseMetrics[m].value }

MetricSnippets(m) ==
    CASE m = "eps" -> { SnipEpsBasicTotal, SnipEpsDiluted, SnipEpsBare, SnipEpsContinuing, << >> }
      [] m = "networth" -> { SnipTotalEquity, SnipComponentsTotal, SnipOtherEquity, SnipFunds, << >> }
      [] OTHER -> { BaseMetrics[m].snippet, SnipOtherIncome, << >> }

\* the snippets tried with an unusable page: found, found elsewhere or not
\* at all, missing
RepairSnippets(m) == { BaseMetrics[m].snippet, SnipOtherIncome, SnipFunds, << >> }

\* a metric's entry: any value with any snippet on page 1, or the clean value
\* on any page, or nothing found
MetricEntries(m) ==
    { Entry(v, 1, sn) : v \in MetricValues(m), sn \in MetricSnippets(m) }
      \cup { Entry(BaseMetrics[m].value, p, sn) : p \in InputPages, sn \in RepairSnippets(m) }
      \cup { Entry(Zero, p, << >>) : p \in InputPages }

\* a year label stands for its 4-digit string: such strings compare as the
\* numbers do
Year(ms) ==
    [year_label |-> 2023, metrics |-> ms, attrib |-> << >>, eps_basis |-> << >>,
     eps_scope |-> << >>]

\* replies of the full extraction: one metric away from a clean or an empty record
YearInputs ==
    { Year(EmptyMetrics) }
      \cup UNION { { Year([BaseMetrics EXCEPT ![m] = x]) : x \in MetricEntries(m) }
                      : m \in MetricSet }

EpsReply(v, b, sc, p, sn) ==
    [value |-> v, basis |-> b, scope |-> sc, page |-> p,
     section |-> << Cap("note") >>, snippet |-> sn]

\* basis and scope fields: missing, as the prompt asks, with stray case and
\* blanks, or another string
BasisFields == { << >>, << T("basic") >>, << Cap("diluted"), SP >>, << T("unknown") >> }

ScopeFields ==
    { << >>, << Cap("total"), SP >>, << T("continuing") >>, << T("unknown") >>,
      << T("discontinued") >> }

EpsReplies ==
    { EpsReply(Dec(52, -1), b, sc, 1, SnipEpsBasicTotal) :
        b \in BasisFields, sc \in ScopeFields }
      \cup { EpsReply(v, << T("basic") >>, << T("total") >>, p, SnipEpsBasicTotal) :
               v \in { Dec(52, -1), Dec(52, 6), Zero, FromInt(-1) },
               p \in { 0, MaxPages + 1 } }
      \cup { EpsReply(Dec(52, -1), << T("basic") >>, sc, 1, sn) :
               sc \in { << >>, << T("continuing") >> },
               sn \in { SnipEpsDiluted, SnipEpsBare, SnipEpsContinuing, << >> } }
      \cup { EpsReply(Dec(52, -1), << T("diluted") >>, << T("total") >>, 1, SnipEpsDilutedTotal) }

NetworthReplies ==
    { Entry(v, 1, sn) :
        v \in { FromInt(5000), Dec(5, 10), Zero, FromInt(-1) },
        sn \in { SnipTotalEquity, SnipOtherEquity, << >> } }
      \cup { Entry(FromInt(5000), p, sn) :
               p \in { 0, MaxPages + 1 }, sn \in { SnipTotalEquity, SnipComponentsTotal } }

AttribReplies ==
    { Entry(FromInt(100), 1, SnipPat),
      Entry(Dec(1, 9), 0, SnipPat),
      Entry(FromInt(100), MaxPages + 1, SnipFunds),
      Entry(Zero, 0, << >>) }

(***************************************************************************)
(* The per-document pipeline of main (test.py) and of the bridge script    *)
(* (extract_financials_from_pdfs.py), which differ in where the second     *)
(* repair pass runs.                                                       *)
(***************************************************************************)
VARIABLES
    driver,     \* "test_main" or "bridge"
    doc,        \* the document being processed
    pc,         \* the next stage of the loop body
    y,          \* the year record
    yPre,       \* the year record before the last stage ran
    reply,      \* << r >>: the reply of the last targeted re-extraction
    outcome,    \* of the last stage: "none", "skipped", "raised", "replied"
    repairs,    \* what the last repair_sources returned
    years,      \* main's list of year records
    msgs,       \* what the last cross-year check returned
    files       \* the PDF files of the run, in the order of the loop

vars == << driver, doc, pc, y, yPre, reply, outcome, repairs, years, msgs, files >>

Init ==
    /\ driver \in { "test_main", "bridge" }
    /\ doc \in Docs
    /\ pc = "extract"
    /\ y = Year(EmptyMetrics)
    /\ yPre = Year(EmptyMetrics)
    /\ reply = << >>
    /\ outcome = "none"
    /\ repairs = << >>
    /\ years = << >>
    /\ msgs = << >>
    /\ files = << >>

\* y = gemini_extract_from_pdf(p)
Extract ==
    /\ pc = "extract"
    /\ \E r \in YearInputs : y' = r
    /\ yPre' = y
    /\ pc' = "normalize"
    /\ reply' = << >>
    /\ outcome' = "none"
    /\ UNCHANGED << files, driver, doc, repairs, years, msgs >>

Normalize ==
    /\ pc = "normalize"
    /\ y' = [y EXCEPT !.metrics = normalize_units_in_place(y.metrics)]
    /\ yPre' = y
    /\ pc' = "repair1"
    /\ UNCHANGED << files, driver, doc, reply, outcome, repairs, years, msgs >>

Repair1 ==
    /\ pc = "repair1"
    /\ y' = [y EXCEPT !.metrics = repair_sources(doc, y.metrics)]
    /\ repairs' = repair_sources_result(doc, y.metrics)
    /\ yPre' = y
    /\ pc' = "eps"
    /\ UNCHANGED << files, driver, doc, reply, outcome, years, msgs >>

\* variant: no try/except around apply_eps_only, the exception ends the run
EpsFix_unguarded ==
    /\ pc = "eps"
    /\ \/ /\ ~needs_eps_fix(y)
          /\ y' = y
          /\ reply' = << >>
          /\ outcome' = "skipped"
          /\ pc' = "networth"
       \/ /\ needs_eps_fix(y)
          /\ y' = y
          /\ reply' = << >>
          /\ outcome' = "raised"
          /\ pc' = "aborted"
       \/ /\ needs_eps_fix(y)
          /\ \E r \in EpsReplies :
                /\ y' = apply_eps_only(doc, y, r)
                /\ reply' = << r >>
          /\ outcome' = "replied"
          /\ pc' = "networth"
    /\ yPre' = y
    /\ UNCHANGED << files, driver, doc, repairs, years, msgs >>

EpsFix ==
    /\ pc = "eps"
    /\ \/ /\ ~needs_eps_fix(y)
          /\ y' = y
          /\ reply' = << >>
          /\ outcome' = "skipped"
       \/ /\ needs_eps_fix(y)
          /\ y' = y
          /\ reply' = << >>
          /\ outcome' = "raised"
       \/ /\ needs_eps_fix(y)
          /\ \E r \in EpsReplies :
                /\ y' = apply_eps_only(doc, y, r)
                /\ reply' = << r >>
          /\ outcome' = "replied"
    /\ yPre' = y
    /\ pc' = "networth"
    /\ UNCHANGED << files, driver, doc, repairs, years, msgs >>

NetworthFix ==
    /\ pc = "networth"
    /\ \/ /\ ~needs_networth_fix(y)
          /\ y' = y
          /\ reply' = << >>
          /\ outcome' = "skipped"
       \/ /\ needs_networth_fix(y)
          /\ y' = y
          /\ reply' = << >>
          /\ outcome' = "raised"
       \/ /\ needs_networth_fix(y)
          /\ \E r \in NetworthReplies :
                /\ y' = apply_networth_only(doc, y, r)
                /\ reply' = << r >>
          /\ outcome' = "replied"
    /\ yPre' = y
    /\ pc' = IF driver = "test_main" THEN "repair2" ELSE "attrib"
    /\ UNCHANGED << files, driver, doc, repairs, years, msgs >>

Repair2 ==
    /\ pc = "repair2"
    /\ y' = [y EXCEPT !.metrics = repair_sources(doc, y.metrics)]
    /\ repairs' = repair_sources_result(doc, y.metrics)
    /\ yPre' = y
    /\ reply' = << >>
    /\ outcome' = "none"
    /\ pc' = IF driver = "test_main" THEN "attrib" ELSE "emit"
    /\ UNCHANGED << files, driver, doc, years, msgs >>

PatAttrib ==
    /\ pc = "attrib"
    /\ \/ /\ y' = y
          /\ reply' = << >>
          /\ outcome' = "raised"
       \/ /\ \E r \in AttribReplies :
                /\ y' = attach_pat_attrib(doc, y, r)
                /\ reply' = << r >>
          /\ outcome' = "replied"
    /\ yPre' = y
    /\ pc' = IF driver = "test_main" THEN "emit" ELSE "repair2"
    /\ UNCHANGED << files, driver, doc, repairs, years, msgs >>

\* years.append(y)
Emit ==
    /\ pc = "emit"
    /\ pc' = "emitted"
    /\ yPre' = y
    /\ reply' = << >>
    /\ outcome' = "none"
    /\ years' = Append(years, y)
    /\ UNCHANGED << files, driver, doc, y, repairs, msgs >>

Next ==
    \/ Extract
    \/ Normalize
    \/ Repair1
    \/ EpsFix
    \/ NetworthFix
    \/ Repair2
    \/ PatAttrib
    \/ Emit

Spec == Init /\ [][Next]_vars

(***************************************************************************)
(* Unit normalization applied twice to one record (test.py 208-216).       *)
(***************************************************************************)
\* values of a scale-sensitive metric: none, crore scale, either side of the
\* threshold, rupee scale, beyond rupee scale, negative
ScaleValues ==
    { Zero, FromInt(100), FromInt(INR_THRESHOLD - 1), FromInt(INR_THRESHOLD),
      Dec(12345, 9), Dec(1, 16), Dec(-5, 9) }

\* values of EPS: none, plain, either side of the limit, mis-scaled once,
\* mis-scaled beyond one division, negative
EpsValues ==
    { Zero, Dec(52, -1), FromInt(EPS_LIMIT), FromInt(EPS_LIMIT + 1), Dec(52, 6),
      Dec(52, 11), FromInt(-1) }

NormInputs ==
    { Year([BaseMetrics EXCEPT ![m].value = v, !["eps"].value = e]) :
        m \in { ScaleMetrics[i] : i \in 1..Len(ScaleMetrics) },
        v \in ScaleValues, e \in EpsValues }

InitNorm ==
    /\ driver = "normalize"
    /\ doc = << PageIncome >>
    /\ pc = "raw"
    /\ y \in NormInputs
    /\ yPre = Year(EmptyMetrics)
    /\ reply = << >>
    /\ outcome = "none"
    /\ repairs = << >>
    /\ years = << >>
    /\ msgs = << >>
    /\ files = << >>

\* normalize_units_in_place(y)
NormalizeOnce ==
    /\ pc = "raw"
    /\ y' = [y EXCEPT !.metrics = normalize_units_in_place(y.metrics)]
    /\ yPre' = y
    /\ pc' = "normalized"
    /\ UNCHANGED << files, driver, doc, reply, outcome, repairs, years, msgs >>

\* normalize_units_in_place(y) on the record it has already normalised
NormalizeAgain ==
    /\ pc = "normalized"
    /\ y' = [y EXCEPT !.metrics = normalize_units_in_place(y.metrics)]
    /\ yPre' = y
    /\ pc' = "renormalized"
    /\ UNCHANGED << files, driver, doc, reply, outcome, repairs, years, msgs >>

NextNorm ==
    \/ NormalizeOnce
    \/ NormalizeAgain

SpecNorm == InitNorm /\ [][NextNorm]_vars

ValuesOf(year_obj) == [m \in MetricSet |-> year_obj.metrics[m].value]

\* every scale-sensitive value that was >= 1e9 is now that value / 10,000,000
DividedByCrore ==
    pc = "normalized" =>
        \A i \in 1..Len(ScaleMetrics) :
            Ge(yPre.metrics[ScaleMetrics[i]].value, FromInt(INR_THRESHOLD)) =>
                Mul(y.metrics[ScaleMetrics[i]].value, FromInt(CRORE_TO_INR))
                    = yPre.metrics[ScaleMetrics[i]].value

\* the normalised record is already in range: scale values < 1e9, EPS <= 10,000
InRange(year_obj) ==
    /\ \A i \in 1..Len(ScaleMetrics) :
          Lt(year_obj.metrics[ScaleMetrics[i]].value, FromInt(INR_THRESHOLD))
    /\ Le(year_obj.metrics["eps"].value, FromInt(EPS_LIMIT))

\* C1 as stated: a scale-sensitive value >= 1e9 becomes value / 10,000,000,
\* and a second normalization leaves every metric value unchanged.
C1_AsStated ==
    /\ DividedByCrore
    /\ pc = "renormalized" => ValuesOf(y) = ValuesOf(yPre)

\* C1 amended: a scale-sensitive value >= 1e9 becomes value / 10,000,000, and
\* a second normalization leaves every metric value unchanged provided the
\* first left every scale-sensitive value below 1e9 and EPS at most 10,000.
C1_Normalization ==
    /\ DividedByCrore
    /\ (pc = "renormalized" /\ InRange(yPre)) => ValuesOf(y) = ValuesOf(yPre)

\* a rupee-scale revenue of 1.2345e13 was divided once to 1,234,500 and the
\* second normalization kept it
C1_Witness ==
    /\ pc = "renormalized"
    /\ y.metrics["revenue"].value = Dec(12345, 2)
    /\ InRange(yPre)
    /\ ValuesOf(y) = ValuesOf(yPre)

(***************************************************************************)
(* Properties of the per-document pipeline                                 *)
(***************************************************************************)
\* the word w occurs in the text s, in any casing
Mentions(s, w) == \E i \in 1..Len(s) : s[i].w = w

\* the EPS-only oracle was called: the stage was not skipped
EpsRepairTriggered == outcome \in { "raised", "replied" }

\* C2: the EPS repair triggers exactly when the EPS value is <= 0, or the
\* snippet contains neither "basic" nor "diluted", or it contains "diluted"
\* without "basic"; for every other value and snippet it does not trigger.
C2_NeedsEpsFix ==
    pc = "networth" =>
        (EpsRepairTriggered <=>
            \/ Le(yPre.metrics["eps"].value, Zero)
            \/ (/\ ~Mentions(yPre.metrics["eps"].snippet, "basic")
                /\ ~Mentions(yPre.metrics["eps"].snippet, "diluted"))
            \/ (/\ Mentions(yPre.metrics["eps"].snippet, "diluted")
                /\ ~Mentions(yPre.metrics["eps"].snippet, "basic")))

\* the snippet "Diluted EPS: 5.20" with a positive value triggered the repair
C2_Witness ==
    /\ pc = "networth"
    /\ EpsRepairTriggered
    /\ yPre.metrics["eps"].snippet = SnipEpsDiluted
    /\ Gt(yPre.metrics["eps"].value, Zero)

\* the phrase (a list of lower-case words) occurs in the text s once blanks
\* are collapsed and casing is ignored
MentionsPhrase(s, phrase) ==
    Contains(Lower(norm_spaces(s)), Words([i \in 1..Len(phrase) |-> T(phrase[i])]))

\* the snippet of reply r names the basis of the figure
NamesBasis(r) == Mentions(r.snippet, "basic") \/ Mentions(r.snippet, "diluted")

\* the scope a reply states, "total" when it states none
StatedScope(r) == FieldOrDefault(r.scope, << T("total") >>)

\* scope "total" requires "continuing and discontinued" in the snippet, scope
\* "continuing" requires "continuing"
SatisfiesScopeLabelling(r) ==
    /\ StatedScope(r) = << T("total") >> =>
          MentionsPhrase(r.snippet, << "continuing", "and", "discontinued" >>)
    /\ StatedScope(r) = << T("continuing") >> => Mentions(r.snippet, "continuing")

\* the EPS-only oracle has just replied
EpsReplied == pc = "networth" /\ outcome = "replied"

\* the EPS entry and its basis and scope marks
EpsFields(year_obj) ==
    << year_obj.metrics["eps"], year_obj.eps_basis, year_obj.eps_scope >>

\* C3: the year's EPS is replaced only if the re-extracted snippet names
\* "basic" or "diluted" and satisfies scope labelling; when the candidate is
\* rejected (or the oracle call fails) the year's EPS value, citation,
\* eps_basis and eps_scope, and everything else in the record, are untouched.
C3_EpsGate ==
    /\ (EpsReplied /\ EpsFields(y) # EpsFields(yPre)) =>
          NamesBasis(reply[1]) /\ SatisfiesScopeLabelling(reply[1])
    /\ (EpsReplied /\ ~(/\ Gt(reply[1].value, Zero)
                        /\ NamesBasis(reply[1])
                        /\ SatisfiesScopeLabelling(reply[1]))) => y = yPre
    /\ (pc = "networth" /\ outcome = "raised") => y = yPre

\* a reply with scope "continuing" whose snippet names the basis and says
\* "continuing" replaced the year's EPS
C3_Witness ==
    /\ EpsReplied
    /\ StatedScope(reply[1]) = << T("continuing") >>
    /\ reply[1].snippet = SnipEpsContinuing
    /\ y.metrics["eps"].snippet = SnipEpsContinuing
    /\ y.metrics["eps"] # yPre.metrics["eps"]
    /\ y.eps_scope = << T("continuing") >>

\* the basis a reply states, "basic" when it states none
StatedBasis(r) == FieldOrDefault(r.basis, << T("basic") >>)

\* the oracle replied with a positive value and the snippet
\* "Basic EPS: 5.20, Continuing and Discontinued operations"
BasicTotalReplied ==
    /\ EpsReplied
    /\ Gt(reply[1].value, Zero)
    /\ reply[1].snippet = SnipEpsBasicTotal

\* the year's EPS value and citation are those of reply r: its value (divided
\* by 10,000,000 when above 10,000), section and snippet, and its page when
\* that page is one of the document's
TakenFrom(year_obj, r) ==
    /\ year_obj.metrics["eps"].value =
          IF Gt(r.value, FromInt(EPS_LIMIT)) THEN Dec(r.value.n, r.value.e - 7) ELSE r.value
    /\ year_obj.metrics["eps"].section = r.section
    /\ year_obj.metrics["eps"].snippet = r.snippet
    /\ (r.page \in 1..Len(doc)) => year_obj.metrics["eps"].page = r.page

\* C4 as stated: every positive reply carrying the snippet "Basic EPS: 5.20,
\* Continuing and Discontinued operations" that passes the gate replaces the
\* year's EPS value and citation and sets eps_basis = "basic" and
\* eps_scope = "total", whatever its other fields.
C4_AsStated ==
    (BasicTotalReplied /\ EpsGate(reply[1])) =>
        /\ TakenFrom(y, reply[1])
        /\ y.eps_basis = << T("basic") >>
        /\ y.eps_scope = << T("total") >>

\* C4 amended: every positive reply carrying that snippet passes the gate and
\* replaces the year's EPS value and citation; eps_basis is "diluted" when the
\* reply's basis field says diluted and "basic" otherwise, and eps_scope is
\* the reply's scope field, "total" when it is missing. So eps_basis = "basic"
\* and eps_scope = "total" for the replies whose basis field is not "diluted"
\* and whose scope field is missing or "total".
C4_BasicTotal ==
    BasicTotalReplied =>
        /\ EpsGate(reply[1])
        /\ TakenFrom(y, reply[1])
        /\ y.eps_basis = (IF StatedBasis(reply[1]) = << T("diluted") >>
                          THEN << T("diluted") >> ELSE << T("basic") >>)
        /\ y.eps_scope = StatedScope(reply[1])
        /\ (StatedBasis(reply[1]) # << T("diluted") >> /\ StatedScope(reply[1]) = << T("total") >>)
              => (y.eps_basis = << T("basic") >> /\ y.eps_scope = << T("total") >>)

\* a reply with that snippet and no basis or scope field replaced a
\* diluted-only EPS and was marked basic / total
C4_Witness ==
    /\ BasicTotalReplied
    /\ reply[1].basis = << >>
    /\ reply[1].scope = << >>
    /\ yPre.metrics["eps"].snippet = SnipEpsDiluted
    /\ y.metrics["eps"].snippet = SnipEpsBasicTotal
    /\ y.eps_basis = << T("basic") >>
    /\ y.eps_scope = << T("total") >>

\* the net-worth stage has just run
NetworthFixDone ==
    \/ driver = "test_main" /\ pc = "repair2"
    \/ driver = "bridge" /\ pc = "attrib"

\* the net-worth-only oracle was called: the stage was not skipped
NetworthRepairTriggered == outcome \in { "raised", "replied" }

HasTotalEquity(sn) == MentionsPhrase(sn, << "total", "equity" >>)

LooksLikeComponents(sn) ==
    \/ MentionsPhrase(sn, << "equity", "share", "capital" >>)
    \/ MentionsPhrase(sn, << "other", "equity" >>)

\* C5: the net-worth repair triggers exactly when the value is <= 0, or the
\* snippet mentions "equity share capital" / "other equity" without "total
\* equity", or the snippet lacks "total equity"; it does not trigger for a
\* positive value whose snippet contains "total equity".
C5_NeedsNetworthFix ==
    NetworthFixDone =>
        /\ NetworthRepairTriggered <=>
              \/ Le(yPre.metrics["networth"].value, Zero)
              \/ (/\ LooksLikeComponents(yPre.metrics["networth"].snippet)
                  /\ ~HasTotalEquity(yPre.metrics["networth"].snippet))
              \/ ~HasTotalEquity(yPre.metrics["networth"].snippet)
        /\ (/\ Gt(yPre.metrics["networth"].value, Zero)
            /\ HasTotalEquity(yPre.metrics["networth"].snippet)) => outcome = "skipped"

\* a positive net worth cited by "Shareholders' funds 5,000", which names
\* neither a component nor total equity, triggered the repair
C5_Witness ==
    /\ NetworthFixDone
    /\ NetworthRepairTriggered
    /\ Gt(yPre.metrics["networth"].value, Zero)
    /\ yPre.metrics["networth"].snippet = SnipFunds

\* the net-worth-only oracle has just replied
NetworthReplied == NetworthFixDone /\ outcome = "replied"

\* the reply's value, rescaled if mis-scaled, is positive (rescaling keeps the sign)
PositiveReply(r) == Gt(r.value, Zero)

\* C6: the year's net worth is replaced only if the returned value is
\* positive and its snippet contains "total equity"; when the candidate is
\* rejected (or the oracle call fails) the year's net-worth value and
\* citation, and everything else in the record, are untouched.
C6_NetworthGate ==
    /\ (NetworthReplied /\ y.metrics["networth"] # yPre.metrics["networth"]) =>
          PositiveReply(reply[1]) /\ HasTotalEquity(reply[1].snippet)
    /\ (NetworthReplied /\ ~(PositiveReply(reply[1]) /\ HasTotalEquity(reply[1].snippet)))
          => y = yPre
    /\ (NetworthFixDone /\ outcome = "raised") => y = yPre

\* a rupee-scale reply of 5e10 citing "Total Equity 5,000" replaced a net
\* worth that cited "Other Equity 4,000", as 5,000
C6_Witness ==
    /\ NetworthReplied
    /\ reply[1].value = Dec(5, 10)
    /\ reply[1].snippet = SnipTotalEquity
    /\ yPre.metrics["networth"].snippet = SnipOtherEquity
    /\ y.metrics["networth"].value = FromInt(5000)
    /\ y.metrics["networth"].snippet = SnipTotalEquity

\* repair_sources has just run on yPre and returned repairs
RepairJustRan ==
    \/ pc = "eps"
    \/ driver = "test_main" /\ pc = "attrib"
    \/ driver = "bridge" /\ pc = "emit"

\* the outcomes recorded for metric m
OutcomesOf(m) == { i \in 1..Len(repairs) : repairs[i].metric = m }

\* snippet search or, failing that, number search finds a page for metric m
\* of year_obj
Found(year_obj, m) ==
    ResolvePage(doc, m, year_obj.metrics[m].snippet, year_obj.metrics[m].value)

\* C7: for each metric whose citation page P0 is <= 0 or beyond the page
\* count exactly one outcome is recorded; if snippet search or, failing that,
\* number search finds page P1 the citation page becomes P1 and the outcome
\* is "page P0 -> P1"; otherwise the outcome is "page P0 unresolved" and the
\* record is left with page = 0.
C7_AsStated ==
    RepairJustRan =>
        \A m \in MetricSet :
            PageOutOfRange(doc, yPre.metrics[m].page) =>
                /\ Cardinality(OutcomesOf(m)) = 1
                /\ \A i \in OutcomesOf(m) :
                      /\ repairs[i].p0 = yPre.metrics[m].page
                      /\ IF Len(Found(yPre, m)) > 0
                         THEN /\ repairs[i].kind = "moved"
                              /\ repairs[i].p1 = Found(yPre, m)[1]
                              /\ y.metrics[m].page = Found(yPre, m)[1]
                         ELSE /\ repairs[i].kind = "unresolved"
                              /\ y.metrics[m].page = 0

\* what repair_sources does on failure: the outcome is "page P0 unresolved"
\* and the citation keeps the page P0 it came with
C7_UnresolvedKeepsPage ==
    RepairJustRan =>
        \A m \in MetricSet :
            PageOutOfRange(doc, yPre.metrics[m].page) =>
                /\ Cardinality(OutcomesOf(m)) = 1
                /\ \A i \in OutcomesOf(m) :
                      /\ repairs[i].p0 = yPre.metrics[m].page
                      /\ IF Len(Found(yPre, m)) > 0
                         THEN /\ repairs[i].kind = "moved"
                              /\ repairs[i].p1 = Found(yPre, m)[1]
                              /\ y.metrics[m].page = Found(yPre, m)[1]
                         ELSE /\ repairs[i].kind = "unresolved"
                              /\ y.metrics[m].page = yPre.metrics[m].page

\* a citation beyond the last page stayed unresolved and kept its page
C7_UnresolvedBeyondEnd ==
    /\ RepairJustRan
    /\ \E m \in MetricSet :
          /\ yPre.metrics[m].page > Len(doc)
          /\ Len(Found(yPre, m)) = 0
          /\ y.metrics[m].page = yPre.metrics[m].page

\* every citation of the record: the six metrics and, when attached, the
\* derived PAT-attributable field
CitationPages(year_obj) ==
    { year_obj.metrics[m].page : m \in MetricSet }
      \cup { year_obj.attrib[i].page : i \in 1..Len(year_obj.attrib) }

\* C8: in every year record the pipeline emits, every citation with page > 0
\* is a valid 1-based page of the source document, whatever pages the oracle
\* returned.
C8_AsStated ==
    pc = "emitted" =>
        \A p \in CitationPages(y) : p > 0 => p \in 1..Len(doc)

\* a record was emitted with a metric citation beyond the last page
C8_EmittedBeyondEnd ==
    /\ pc = "emitted"
    /\ \E m \in MetricSet : y.metrics[m].page > Len(doc)

\* the pages on which the value val is printed, in any of the renderings
\* number search looks for
PagesPrinting(val) ==
    { p \in 1..Len(doc) : \E c \in NumberCandidates(val) : Contains(doc[p], c) }

\* the snippet sn (or, when it is long, one of its searched prefixes) occurs
\* on page p; a snippet shorter than 10 characters is never searched
SnippetOccursOn(sn, p) ==
    /\ CharLen(norm_spaces(sn)) >= 10
    /\ \E a \in SnippetAnchors(norm_spaces(sn)) : Contains(norm_spaces(doc[p]), a)

\* metric m of year_obj has a non-zero value printed on page k only, and its
\* citation has page 0
PrintedOnlyOn(year_obj, m, k) ==
    /\ year_obj.metrics[m].page = 0
    /\ year_obj.metrics[m].value # Zero
    /\ PagesPrinting(year_obj.metrics[m].value) = { k }

\* C9 as stated: when a metric's value is printed on page k only and the
\* input citation has page 0, repair_sources resolves the citation to k.
C9_AsStated ==
    RepairJustRan =>
        \A m \in MetricSet : \A k \in 1..Len(doc) :
            PrintedOnlyOn(yPre, m, k) => y.metrics[m].page = k

\* C9 amended: when a metric's value is printed on page k only, the input
\* citation has page 0, page k passes the metric's keyword / anchor gate and
\* the snippet occurs on no other page, repair_sources resolves the citation
\* to k.
C9_ResolvedToK ==
    RepairJustRan =>
        \A m \in MetricSet : \A k \in 1..Len(doc) :
            (/\ PrintedOnlyOn(yPre, m, k)
             /\ page_passes_constraints(m, doc[k], << >>)
             /\ \A j \in 1..Len(doc) : j # k => ~SnippetOccursOn(yPre.metrics[m].snippet, j))
                => y.metrics[m].page = k

\* revenue 1,234,567, printed only on page 2 and cited with page 0 and no
\* snippet, was resolved to page 2 by number search
C9_Witness ==
    /\ pc = "eps"
    /\ doc = << PageBalance, PageIncome >>
    /\ PrintedOnlyOn(yPre, "revenue", 2)
    /\ yPre.metrics["revenue"].snippet = << >>
    /\ y.metrics["revenue"].page = 2

(***************************************************************************)
(* Cross-year checks (test.py 556-706) on the sorted list of years         *)
(***************************************************************************)
implied_shares(pat_crore, eps) ==
    IF Le(pat_crore, Zero) \/ Le(eps, Zero) THEN Zero
    ELSE Div(Mul(pat_crore, FromInt(CRORE_TO_INR)), eps)

\* safe_num((y.get("_pat_attrib_owners", {}) or {}).get("value", 0))
PatForEps(year_obj) ==
    IF Len(year_obj.attrib) = 0 THEN Zero ELSE year_obj.attrib[1].value

\* the row run_pat_eps_checks appends for one year
ShareRow(year_obj) ==
    [year_label |-> year_obj.year_label,
     shares |-> IF Le(PatForEps(year_obj), Zero) \/ Le(year_obj.metrics["eps"].value, Zero)
                THEN Zero
                ELSE implied_shares(PatForEps(year_obj), year_obj.metrics["eps"].value)]

\* x placed behind the last element of the sorted list s whose label is not
\* greater than its own
RECURSIVE InsertByLabel(_, _)
InsertByLabel(s, x) ==
    IF Len(s) = 0 THEN << x >>
    ELSE IF s[Len(s)].year_label <= x.year_label THEN Append(s, x)
         ELSE Append(InsertByLabel(SubSeq(s, 1, Len(s) - 1), x), s[Len(s)])

\* sorted(s, key = year label): a stable sort
RECURSIVE SortedByLabel(_)
SortedByLabel(s) ==
    IF Len(s) = 0 THEN << >>
    ELSE InsertByLabel(SortedByLabel(SubSeq(s, 1, Len(s) - 1)), s[Len(s)])

\* the defaults of run_pat_eps_checks, which main passes as well
DefaultMultipliers == << FromInt(2) >>

DefaultTol == Dec(25, -2)

\* `if change > 0.12`
SHARE_CHANGE_LIMIT == Dec(12, -2)

\* a variant with the tolerance taken as a distance, m - tol <= ratio <= m + tol
RECURSIVE ExpectedMultiplier_additive(_, _, _, _)
ExpectedMultiplier_additive(ratio, multipliers, tol, i) ==
    IF i > Len(multipliers) THEN << >>
    ELSE IF /\ Le(Sub(multipliers[i], tol), ratio)
            /\ Le(ratio, Add(multipliers[i], tol))
         THEN << multipliers[i] >>
         ELSE ExpectedMultiplier_additive(ratio, multipliers, tol, i + 1)

\* the first multiplier m with m * (1 - tol) <= ratio <= m * (1 + tol)
RECURSIVE ExpectedMultiplier(_, _, _, _)
ExpectedMultiplier(ratio, multipliers, tol, i) ==
    IF i > Len(multipliers) THEN << >>
    ELSE IF /\ Le(Mul(multipliers[i], Sub(FromInt(1), tol)), ratio)
            /\ Le(ratio, Mul(multipliers[i], Add(FromInt(1), tol)))
         THEN << multipliers[i] >>
         ELSE ExpectedMultiplier(ratio, multipliers, tol, i + 1)

PatEpsMsg(level, kind, r0, r1) ==
    [level |-> level, kind |-> kind, y0 |-> r0.year_label, y1 |-> r1.year_label]

\* a variant that warns from a change of exactly 12% on
ChangeMessage_inclusive(r0, r1, change) ==
    IF Ge(change, SHARE_CHANGE_LIMIT)
    THEN PatEpsMsg("WARN", "changed", r0, r1)
    ELSE PatEpsMsg("OK", "changed", r0, r1)

\* the last branch of the loop body: change = abs(s1 - s0) / s0
ChangeMessage(r0, r1, change) ==
    IF Gt(change, SHARE_CHANGE_LIMIT)
    THEN PatEpsMsg("WARN", "changed", r0, r1)
    ELSE PatEpsMsg("OK", "changed", r0, r1)

\* the loop body after the zero test, given expected (<< >> for None)
RatioMessage(r0, r1, expected) ==
    IF Len(expected) > 0
    THEN PatEpsMsg("INFO", "expected_multiple", r0, r1)
    ELSE ChangeMessage(r0, r1, Div(AbsNum(Sub(r1.shares, r0.shares)), r0.shares))

\* the message the loop of run_pat_eps_checks appends for rows r0, r1
PairMessage(r0, r1, multipliers, tol) ==
    IF Le(r0.shares, Zero) \/ Le(r1.shares, Zero)
    THEN PatEpsMsg("WARN", "cannot_validate", r0, r1)
    ELSE RatioMessage(r0, r1,
                      ExpectedMultiplier(Div(r1.shares, r0.shares), multipliers, tol, 1))

\* the loop over adjacent rows
PairMessages(rows, multipliers, tol) ==
    IF Len(rows) <= 1 THEN << >>
    ELSE [i \in 1..(Len(rows) - 1) |-> PairMessage(rows[i], rows[i + 1], multipliers, tol)]

run_pat_eps_checks(years_sorted, multipliers, tol) ==
    PairMessages(SortedByLabel([i \in 1..Len(years_sorted) |-> ShareRow(years_sorted[i])]),
                 multipliers, tol)

\* the digit a symbol spells, -1 for any other symbol
DigitVal(t) ==
    IF \E i \in 1..Len(DIGITS) : DIGITS[i] = t.w
    THEN (CHOOSE i \in 1..Len(DIGITS) : DIGITS[i] = t.w) - 1
    ELSE -1

\* \w of the regular expression: a letter or digit, not a blank or a
\* punctuation mark
IsWordChar(t) ==
    ~IsSpace(t) /\ t.w \notin { ",", ".", ":", ";", "'", "&", "(", ")", "-", "/", "%", "ELLIPSIS" }

\* the last index of the run of digits that starts at i (greedy \d+)
RECURSIVE RunEnd(_, _)
RunEnd(s, i) ==
    IF i < Len(s) /\ DigitVal(s[i + 1]) >= 0 THEN RunEnd(s, i + 1) ELSE i

\* the match of \d+\.\d+\b whose integer part is s[i..j]: its last index, or 0
FractionEnd(s, j) ==
    IF j + 2 <= Len(s) /\ s[j + 1].w = "." /\ DigitVal(s[j + 2]) >= 0
          /\ (RunEnd(s, j + 2) = Len(s) \/ ~IsWordChar(s[RunEnd(s, j + 2) + 1]))
    THEN RunEnd(s, j + 2)
    ELSE 0

\* the match of \b\d+\.\d+\b that starts at i: its last index, or 0
DecimalEnd(s, i) ==
    IF DigitVal(s[i]) >= 0 /\ (i = 1 \/ ~IsWordChar(s[i - 1]))
    THEN FractionEnd(s, RunEnd(s, i))
    ELSE 0

\* float(text) for the decimal s[i..k]: digits read = acc, digits after the
\* point = frac (-1 before the point)
RECURSIVE DecimalValue(_, _, _, _, _)
DecimalValue(s, i, k, acc, frac) ==
    IF i > k THEN Dec(acc, -frac)
    ELSE IF s[i].w = "." THEN DecimalValue(s, i + 1, k, acc, 0)
    ELSE DecimalValue(s, i + 1, k, acc * 10 + DigitVal(s[i]),
                      IF frac < 0 THEN frac ELSE frac + 1)

\* re.findall(r"\b\d+\.\d+\b", s) from position i on, as numbers
RECURSIVE FindDecimals(_, _)
FindDecimals(s, i) ==
    IF i > Len(s) THEN << >>
    ELSE IF DecimalEnd(s, i) > 0
         THEN << DecimalValue(s, i, DecimalEnd(s, i), 0, -1) >>
                \o FindDecimals(s, DecimalEnd(s, i) + 1)
         ELSE FindDecimals(s, i + 1)

\* nums[1] when len(nums) >= 2, else None
SecondOf(nums) == IF Len(nums) >= 2 THEN << nums[2] >> ELSE << >>

eps_snippet_prior_value(eps_snip) == SecondOf(FindDecimals(norm_spaces(eps_snip), 1))

\* `tol_low <= ratio <= tol_high` with the defaults 1.7 and 2.3
RatioInSplitBand(s0, s1) ==
    /\ Gt(s0, Zero)
    /\ Le(Dec(17, -1), Div(s1, s0))
    /\ Le(Div(s1, s0), Dec(23, -1))

is_share_base_change_year(prev_y, curr_y) ==
    IF \/ Le(prev_y.metrics["eps"].value, Zero) \/ Le(curr_y.metrics["eps"].value, Zero)
       \/ Le(PatForEps(prev_y), Zero) \/ Le(PatForEps(curr_y), Zero)
    THEN FALSE
    ELSE RatioInSplitBand(implied_shares(PatForEps(prev_y), prev_y.metrics["eps"].value),
                          implied_shares(PatForEps(curr_y), curr_y.metrics["eps"].value))

\* by_year[label]: a dict comprehension keeps the last record of a label
ByYear(years_sorted, label) ==
    years_sorted[CHOOSE i \in 1..Len(years_sorted) :
                    /\ years_sorted[i].year_label = label
                    /\ \A j \in (i + 1)..Len(years_sorted) : years_sorted[j].year_label # label]

\* the body of the loop after the share-base guard, given prior_in_curr
BasisMessage(prev, curr, prior_in_curr) ==
    IF /\ Len(prior_in_curr) > 0
       /\ Gt(prev.metrics["eps"].value, Zero)
       /\ Gt(Div(AbsNum(Sub(prior_in_curr[1], prev.metrics["eps"].value)),
                 prev.metrics["eps"].value), Dec(10, -2))
    THEN << [level |-> "WARN", kind |-> "eps_basis", y0 |-> prev.year_label,
             y1 |-> curr.year_label, prior |-> prior_in_curr[1],
             prev_eps |-> prev.metrics["eps"].value] >>
    ELSE << >>

\* one iteration of the loop of run_eps_basis_checks
BasisPair(prev, curr) ==
    IF is_share_base_change_year(prev, curr) THEN << >>
    ELSE BasisMessage(prev, curr, eps_snippet_prior_value(curr.metrics["eps"].snippet))

RECURSIVE BasisMessages(_, _)
BasisMessages(years_sorted, i) ==
    IF i > Len(years_sorted) THEN << >>
    ELSE BasisPair(ByYear(years_sorted, years_sorted[i - 1].year_label),
                   ByYear(years_sorted, years_sorted[i].year_label))
           \o BasisMessages(years_sorted, i + 1)

run_eps_basis_checks(years_sorted) == BasisMessages(years_sorted, 2)

yoy_growth(prev, curr) ==
    IF prev = Zero THEN << >> ELSE << Div(Sub(curr, prev), prev) >>

\* the limits of the loop in run_yoy_checks: 0.35, 0.50, 0.60
YoyLimit(m) ==
    CASE m = "revenue" -> Dec(35, -2)
      [] m = "ebitda" -> Dec(50, -2)
      [] m = "pat" -> Dec(60, -2)

\* variant: a growth of exactly the limit is warned about as well
GrowthWarning_inclusive(m, a, b, g) ==
    IF Len(g) > 0 /\ Ge(AbsNum(g[1]), YoyLimit(m))
    THEN << [level |-> "WARN", kind |-> "yoy", metric |-> m,
             y0 |-> a.year_label, y1 |-> b.year_label] >>
    ELSE << >>

\* `if g is not None and abs(g) > limit`, given g
GrowthWarning(m, a, b, g) ==
    IF Len(g) > 0 /\ Gt(AbsNum(g[1]), YoyLimit(m))
    THEN << [level |-> "WARN", kind |-> "yoy", metric |-> m,
             y0 |-> a.year_label, y1 |-> b.year_label] >>
    ELSE << >>

\* variant: a margin on an endpoint of the interval is flagged as well
MarginWarning_open(m, lo, hi, b, x_m) ==
    IF ~(Lt(lo, x_m) /\ Lt(x_m, hi))
    THEN << [level |-> "WARN", kind |-> "margin", metric |-> m,
             y0 |-> b.year_label, y1 |-> b.year_label] >>
    ELSE << >>

\* `if not (lo <= x_m <= hi)`, given the margin x_m of year b
MarginWarning(m, lo, hi, b, x_m) ==
    IF ~(Le(lo, x_m) /\ Le(x_m, hi))
    THEN << [level |-> "WARN", kind |-> "margin", metric |-> m,
             y0 |-> b.year_label, y1 |-> b.year_label] >>
    ELSE << >>

\* one iteration of the loop of run_yoy_checks, a before b
YoyPair(a, b) ==
    GrowthWarning("revenue", a, b, yoy_growth(a.metrics["revenue"].value, b.metrics["revenue"].value))
      \o GrowthWarning("ebitda", a, b, yoy_growth(a.metrics["ebitda"].value, b.metrics["ebitda"].value))
      \o GrowthWarning("pat", a, b, yoy_growth(a.metrics["pat"].value, b.metrics["pat"].value))
      \o (IF b.metrics["revenue"].value # Zero
          THEN MarginWarning("ebitda", Dec(5, -2), Dec(35, -2), b,
                             Div(b.metrics["ebitda"].value, b.metrics["revenue"].value))
                 \o MarginWarning("pat", Dec(2, -2), Dec(20, -2), b,
                                  Div(b.metrics["pat"].value, b.metrics["revenue"].value))
          ELSE << >>)

RECURSIVE YoyMessages(_, _)
YoyMessages(years_sorted, i) ==
    IF i > Len(years_sorted) THEN << >>
    ELSE YoyPair(years_sorted[i - 1], years_sorted[i]) \o YoyMessages(years_sorted, i + 1)

run_yoy_checks(years_sorted) == YoyMessages(years_sorted, 2)

\* documents per run
MaxYears == 3

YearLabels == { 2022, 2023 }

\* PAT attributable to owners, in crore: missing, or a positive figure (the
\* pipeline attaches no other)
AttribFigures ==
    { << >> } \cup { << Entry(FromInt(v), 1, SnipPat) >> : v \in { 100, 112, 113, 150, 205, 250, 251 } }

\* an emitted year record with label l, PAT-attributable a and EPS value e
CheckYear(l, a, e) ==
    [Year([BaseMetrics EXCEPT !["eps"].value = e]) EXCEPT !.year_label = l, !.attrib = a]

\* the records one document can yield: EPS 1 with any PAT-attributable, or
\* no usable EPS
CheckYears ==
    { CheckYear(l, a, FromInt(1)) : l \in YearLabels, a \in AttribFigures }
      \cup { CheckYear(l, << Entry(FromInt(100), 1, SnipPat) >>, Zero) : l \in YearLabels }

\* "Note 12 Basic EPS 10.00 (9.00)": this year's EPS and last year's next to it
SnipEpsPrior9 ==
    Words(<< Cap("note"), T("1") >>) \o << T("2"), SP >> \o Words(<< Cap("basic"), Up("eps") >>)
      \o << SP, T("1"), T("0"), T("."), T("0"), T("0"), SP,
            T("("), T("9"), T("."), T("0"), T("0"), T(")") >>

\* "Basic EPS 10.00 5.20"
SnipEpsPrior5 ==
    Words(<< Cap("basic"), Up("eps") >>)
      \o << SP, T("1"), T("0"), T("."), T("0"), T("0"), SP >> \o Txt520

\* records for the EPS-basis check: EPS 5.2 on 104 crore (200,000,000 shares)
\* with no prior figure in the snippet; EPS 10 on 339, 340, 460 or 461 crore
\* (1.695, 1.7, 2.3 or 2.305 times the shares) echoing a prior EPS of 9.00;
\* no usable EPS; EPS 10 without PAT-attributable echoing 5.20
BasisYears ==
    { [CheckYear(l, << Entry(FromInt(104), 1, SnipPat) >>, Dec(52, -1))
          EXCEPT !.metrics["eps"].snippet = SnipEpsBasicTotal] : l \in YearLabels }
      \cup { [CheckYear(l, << Entry(FromInt(a), 1, SnipPat) >>, FromInt(10))
                EXCEPT !.metrics["eps"].snippet = SnipEpsPrior9]
                : l \in YearLabels, a \in { 339, 340, 460, 461 } }
      \cup { [CheckYear(l, << Entry(FromInt(104), 1, SnipPat) >>, Zero)
                EXCEPT !.metrics["eps"].snippet = SnipEpsPrior9] : l \in YearLabels }
      \cup { [CheckYear(l, << >>, FromInt(10))
                EXCEPT !.metrics["eps"].snippet = SnipEpsPrior5] : l \in YearLabels }

\* a record with the given revenue, EBITDA and PAT
YoyYear(l, r, e, p) ==
    [Year([BaseMetrics EXCEPT !["revenue"].value = FromInt(r), !["ebitda"].value = FromInt(e),
                              !["pat"].value = FromInt(p)]) EXCEPT !.year_label = l]

\* records for the growth and margin checks, against the base year 100 / 20 /
\* 10: revenue +45% with EBITDA +50% and PAT +60%; revenue +35% with EBITDA
\* +55% and PAT +70%; margins of exactly 35% and 2%; revenue -35% with margins
\* of 20%; margins of exactly 5% and 21%; margins of 36% and 1%; no revenue;
\* an EBITDA margin of 4% and a loss
YoyYears ==
    { YoyYear(l, f[1], f[2], f[3]) :
        l \in YearLabels,
        f \in { << 100, 20, 10 >>, << 145, 30, 16 >>, << 135, 31, 17 >>,
                << 100, 35, 2 >>, << 65, 13, 13 >>, << 100, 5, 21 >>,
                << 100, 36, 1 >>, << 0, 20, 10 >>, << 100, 4, -10 >> } }

InitChecks ==
    /\ driver = "test_main"
    /\ doc = << PageIncome >>
    /\ pc = "collected"
    /\ y = Year(EmptyMetrics)
    /\ yPre = Year(EmptyMetrics)
    /\ reply = << >>
    /\ outcome = "none"
    /\ repairs = << >>
    /\ years \in SeqsUpTo(CheckYears, MaxYears) \cup SeqsUpTo(BasisYears, MaxYears)
                  \cup SeqsUpTo(YoyYears, MaxYears)
    /\ msgs = << >>
    /\ files = << >>

\* the merge of a later record y into the record kept for its label: a
\* metric whose kept value is zero is taken from y when non-zero there
MergeYear(existing, yy) ==
    [existing EXCEPT !.metrics =
        [k \in MetricSet |->
            IF existing.metrics[k].value = Zero /\ yy.metrics[k].value # Zero
            THEN yy.metrics[k] ELSE existing.metrics[k]]]

\* one pass of the loop of dedupe_years over the records kept so far
DedupeStep(merged, yy) ==
    IF \E j \in 1..Len(merged) : merged[j].year_label = yy.year_label
    THEN [j \in 1..Len(merged) |->
            IF merged[j].year_label = yy.year_label THEN MergeYear(merged[j], yy)
            ELSE merged[j]]
    ELSE Append(merged, yy)

RECURSIVE dedupe_years(_)
dedupe_years(ys) ==
    IF Len(ys) = 0 THEN << >>
    ELSE DedupeStep(dedupe_years(SubSeq(ys, 1, Len(ys) - 1)), ys[Len(ys)])

\* years_sorted = sorted(years, key=lambda yy: yy.get("year_label", "")); the
\* bridge script sorts dedupe_years(years)
SortYears ==
    /\ pc = "collected"
    /\ years' = SortedByLabel(IF driver = "bridge" THEN dedupe_years(years) ELSE years)
    /\ pc' = "sorted"
    /\ UNCHANGED << files, driver, doc, y, yPre, reply, outcome, repairs, msgs >>

\* a variant whose check removes from the list it was handed the years
\* without revenue
RunYoyChecks_pruning ==
    /\ pc = "sorted"
    /\ driver = "test_main"
    /\ msgs' = run_yoy_checks(years)
    /\ pc' = "yoy_checked"
    /\ years' = SelectSeq(years, LAMBDA r : r.metrics["revenue"].value # Zero)
    /\ UNCHANGED << files, driver, doc, y, yPre, reply, outcome, repairs >>

\* yoy_warnings = run_yoy_checks(years_sorted); the bridge script writes
\* its output and runs no cross-year check
RunYoyChecks ==
    /\ pc = "sorted"
    /\ driver = "test_main"
    /\ msgs' = run_yoy_checks(years)
    /\ pc' = "yoy_checked"
    /\ UNCHANGED << files, driver, doc, y, yPre, reply, outcome, repairs, years >>

\* eps_msgs = run_eps_basis_checks(years_sorted)
RunEpsBasisChecks ==
    /\ pc = "yoy_checked"
    /\ msgs' = run_eps_basis_checks(years)
    /\ pc' = "basis_checked"
    /\ UNCHANGED << files, driver, doc, y, yPre, reply, outcome, repairs, years >>

\* run_pat_eps_checks(years_sorted, expected_multipliers=(2.0,), tol=0.25)
RunPatEpsChecks ==
    /\ pc = "basis_checked"
    /\ msgs' = run_pat_eps_checks(years, DefaultMultipliers, DefaultTol)
    /\ pc' = "checked"
    /\ UNCHANGED << files, driver, doc, y, yPre, reply, outcome, repairs, years >>

NextChecks ==
    \/ SortYears
    \/ RunYoyChecks
    \/ RunEpsBasisChecks
    \/ RunPatEpsChecks

SpecChecks == InitChecks /\ [][NextChecks]_vars

\* the implied share count of a year: PAT attributable x 10,000,000 / EPS,
\* zero when either is missing or not positive
ImpliedCount(year_obj) ==
    IF Len(year_obj.attrib) = 0 THEN Zero
    ELSE IF ~Gt(year_obj.attrib[1].value, Zero) \/ ~Gt(year_obj.metrics["eps"].value, Zero)
         THEN Zero
         ELSE Div(Mul(year_obj.attrib[1].value, FromInt(10000000)), year_obj.metrics["eps"].value)

\* s1 / s0 lies within 25% of the multiplier 2.0
NearDouble(s0, s1) == Le(Mul(Dec(15, -1), s0), s1) /\ Le(s1, Mul(Dec(25, -1), s0))

\* |s1 - s0| / s0 exceeds 12%
ChangedOver12(s0, s1) == Gt(AbsNum(Sub(s1, s0)), Mul(Dec(12, -2), s0))

\* the one message the claim prescribes for share counts s0, s1
PrescribedMessage(s0, s1) ==
    IF s0 = Zero \/ s1 = Zero THEN << "WARN", "cannot_validate" >>
    ELSE IF NearDouble(s0, s1) THEN << "INFO", "expected_multiple" >>
    ELSE IF ChangedOver12(s0, s1) THEN << "WARN", "changed" >>
    ELSE << "OK", "changed" >>

\* C10: run_pat_eps_checks emits exactly one message per adjacent pair of
\* years in year-label order: a "cannot validate" warning if either implied
\* share count is missing or zero; otherwise an INFO note if s1/s0 is within
\* 25% of 2.0 (counts 1,000,000,000 and 2,050,000,000 give INFO, not a
\* warning); otherwise a warning if |s1 - s0| / s0 exceeds 12%; otherwise OK.
C10_PatEpsChecks ==
    pc = "checked" =>
        /\ Len(msgs) = (IF Len(years) = 0 THEN 0 ELSE Len(years) - 1)
        /\ \A i \in 1..(Len(years) - 1) :
              /\ years[i].year_label <= years[i + 1].year_label
              /\ msgs[i].y0 = years[i].year_label
              /\ msgs[i].y1 = years[i + 1].year_label
              /\ << msgs[i].level, msgs[i].kind >>
                    = PrescribedMessage(ImpliedCount(years[i]), ImpliedCount(years[i + 1]))
              /\ (/\ ImpliedCount(years[i]) = Dec(1, 9)
                  /\ ImpliedCount(years[i + 1]) = Dec(205, 7)) => msgs[i].level = "INFO"

\* three years: counts 1,000,000,000 and 2,050,000,000 gave an INFO note, and
\* the pair with a year that has no PAT-attributable a "cannot validate"
\* warning
C10_Witness ==
    /\ pc = "checked"
    /\ Len(years) = 3
    /\ Len(msgs) = 2
    /\ ImpliedCount(years[1]) = Dec(1, 9)
    /\ ImpliedCount(years[2]) = Dec(205, 7)
    /\ msgs[1].level = "INFO"
    /\ Len(years[3].attrib) = 0
    /\ msgs[2].kind = "cannot_validate"

\* whether the claim prescribes a warning for the pair: the share-count ratio
\* is not in [1.7, 2.3] (an undefined ratio is in no interval), the snippet
\* of the later year holds a second decimal p, and the earlier EPS (positive,
\* so that a relative difference exists) is more than 10% away from p
ClaimedBasisWarning(prev, curr, p) ==
    /\ ~(/\ Gt(ImpliedCount(prev), Zero)
         /\ Le(Mul(Dec(17, -1), ImpliedCount(prev)), ImpliedCount(curr))
         /\ Le(ImpliedCount(curr), Mul(Dec(23, -1), ImpliedCount(prev))))
    /\ Len(p) > 0
    /\ Gt(prev.metrics["eps"].value, Zero)
    /\ Gt(AbsNum(Sub(prev.metrics["eps"].value, p[1])),
          Mul(Dec(10, -2), prev.metrics["eps"].value))

\* the adjacent pairs (i - 1, i) of the list for which a warning is claimed
ClaimedBasisPairs(ys) ==
    { i \in 2..Len(ys) :
        ClaimedBasisWarning(ys[i - 1], ys[i],
                            eps_snippet_prior_value(ys[i].metrics["eps"].snippet)) }

\* the adjacent pairs the k-th of the messages can stand for
PairsOfMessage(ys, m) ==
    { i \in 2..Len(ys) :
        /\ m.y0 = ys[i - 1].year_label
        /\ m.y1 = ys[i].year_label
        /\ m.prev_eps = ys[i - 1].metrics["eps"].value
        /\ << m.prior >> = eps_snippet_prior_value(ys[i].metrics["eps"].snippet) }

\* C11: run_eps_basis_checks emits a basis-mismatch warning for an adjacent
\* pair (prev, curr) of the sorted years exactly when the implied-share-count
\* ratio of the pair is not in [1.7, 2.3], the EPS snippet of curr contains a
\* second decimal number p, and the extracted EPS of prev differs from p by
\* more than 10% relatively; a pair whose ratio is in [1.7, 2.3] gets none.
C11_AsStated ==
    pc = "basis_checked" =>
        /\ Len(msgs) = Cardinality(ClaimedBasisPairs(years))
        /\ \A k \in 1..Len(msgs) :
              /\ msgs[k].level = "WARN"
              /\ PairsOfMessage(years, msgs[k]) \cap ClaimedBasisPairs(years) # { }

\* C11, for lists in which no year label occurs twice
C11_DistinctLabels ==
    (/\ pc = "basis_checked"
     /\ \A i, j \in 1..Len(years) : years[i].year_label = years[j].year_label => i = j)
        => C11_AsStated

\* 2022 (EPS 5.2, 200,000,000 shares), then two records labelled 2023: the
\* first with 2.3 times the shares, the second with 2.305 times; the pair
\* (2022, first 2023) has its ratio in the interval and is warned about
C11_SplitPairWarned ==
    /\ pc = "basis_checked"
    /\ Len(years) = 3
    /\ years[1].year_label = 2022 /\ years[2].year_label = 2023 /\ years[3].year_label = 2023
    /\ years[1].metrics["eps"].value = Dec(52, -1)
    /\ PatForEps(years[2]) = FromInt(460)
    /\ PatForEps(years[3]) = FromInt(461)
    /\ Len(msgs) = 1
    /\ msgs[1].y0 = 2022 /\ msgs[1].y1 = 2023

\* 2022 then 2023 with 1.695 times the shares and a prior EPS of 9.00 in the
\* snippet against an extracted 5.2: one warning
C11_Witness ==
    /\ pc = "basis_checked"
    /\ Len(years) = 2
    /\ years[1].year_label = 2022 /\ years[2].year_label = 2023
    /\ years[1].metrics["eps"].value = Dec(52, -1)
    /\ PatForEps(years[2]) = FromInt(339)
    /\ Len(msgs) = 1
    /\ msgs[1].prior = FromInt(9)
    /\ msgs[1].prev_eps = Dec(52, -1)

\* the limits the claim names, in percent
ClaimedLimitPct(m) == CASE m = "revenue" -> 35 [] m = "ebitda" -> 50 [] m = "pat" -> 60

\* the previous value is non-zero and |(curr - prev) / prev| exceeds the limit
ClaimedGrowthWarning(m, a, b) ==
    /\ a.metrics[m].value # Zero
    /\ Gt(Mul(FromInt(100), AbsNum(Sub(b.metrics[m].value, a.metrics[m].value))),
          Mul(FromInt(ClaimedLimitPct(m)), AbsNum(a.metrics[m].value)))

\* the messages of one kind about metric m that name the labels l0 and l1
MessagesAbout(kind, m, l0, l1) ==
    { k \in 1..Len(msgs) :
        /\ msgs[k].kind = kind /\ msgs[k].metric = m
        /\ msgs[k].y0 = l0 /\ msgs[k].y1 = l1 }

\* C12: run_yoy_checks emits, for each adjacent pair of years and each of
\* revenue, EBITDA and PAT, a growth warning exactly when the previous value
\* is non-zero and |(curr - prev) / prev| exceeds 35% (revenue), 50% (EBITDA)
\* or 60% (PAT): per metric and pair of labels there are as many warnings as
\* adjacent pairs that call for one.  Revenue 100 -> 145 with EBITDA 20 -> 30
\* and PAT 10 -> 16 yields the revenue warning and no other growth warning.
C12_YoyGrowth ==
    pc = "yoy_checked" =>
        /\ \A m \in { "revenue", "ebitda", "pat" }, l0, l1 \in YearLabels :
              Cardinality(MessagesAbout("yoy", m, l0, l1))
                = Cardinality({ i \in 2..Len(years) :
                                  /\ years[i - 1].year_label = l0
                                  /\ years[i].year_label = l1
                                  /\ ClaimedGrowthWarning(m, years[i - 1], years[i]) })
        /\ \A k \in 1..Len(msgs) :
              msgs[k].kind = "yoy" => msgs[k].metric \in { "revenue", "ebitda", "pat" }
        /\ (/\ Len(years) = 2
            /\ years[1] = YoyYear(2022, 100, 20, 10)
            /\ years[2] = YoyYear(2023, 145, 30, 16))
              => /\ Cardinality(MessagesAbout("yoy", "revenue", 2022, 2023)) = 1
                 /\ MessagesAbout("yoy", "ebitda", 2022, 2023) = { }
                 /\ MessagesAbout("yoy", "pat", 2022, 2023) = { }

\* the claim's example has run: revenue 100 -> 145 gave the one warning
C12_Witness ==
    /\ pc = "yoy_checked"
    /\ Len(years) = 2
    /\ years[1] = YoyYear(2022, 100, 20, 10)
    /\ years[2] = YoyYear(2023, 145, 30, 16)
    /\ Len(msgs) = 1
    /\ msgs[1].metric = "revenue"

\* the margin of metric m in year b lies outside [lo%, hi%] of the revenue
ClaimedMarginFlag(m, lo, hi, b) ==
    \/ Lt(Mul(FromInt(100), b.metrics[m].value), Mul(FromInt(lo), b.metrics["revenue"].value))
    \/ Gt(Mul(FromInt(100), b.metrics[m].value), Mul(FromInt(hi), b.metrics["revenue"].value))

\* as many margin flags about metric m in year l as there are later years of
\* adjacent pairs labelled l, with positive revenue, whose margin is outside
MarginFlagsMatch(m, lo, hi, l) ==
    Cardinality(MessagesAbout("margin", m, l, l))
      = Cardinality({ i \in 2..Len(years) :
                        /\ years[i].year_label = l
                        /\ Gt(years[i].metrics["revenue"].value, Zero)
                        /\ ClaimedMarginFlag(m, lo, hi, years[i]) })

\* C13: run_yoy_checks flags, for the later year of each adjacent pair, an
\* EBITDA margin (EBITDA / revenue) outside [5%, 35%] and a PAT margin (PAT /
\* revenue) outside [2%, 20%], and flags no margin that lies inside its
\* interval, the endpoints included.
C13_Margins ==
    pc = "yoy_checked" =>
        \A l \in YearLabels :
            /\ MarginFlagsMatch("ebitda", 5, 35, l)
            /\ MarginFlagsMatch("pat", 2, 20, l)

\* margins of exactly 35% and 2% in the later year were not flagged, and in a
\* further year margins of 36% and 1% were both flagged
C13_Witness ==
    /\ pc = "yoy_checked"
    /\ Len(years) = 3
    /\ years[2] = YoyYear(2022, 100, 35, 2)
    /\ years[3] = YoyYear(2023, 100, 36, 1)
    /\ MessagesAbout("margin", "ebitda", 2022, 2022) = { }
    /\ MessagesAbout("margin", "pat", 2022, 2022) = { }
    /\ Cardinality(MessagesAbout("margin", "ebitda", 2023, 2023)) = 1
    /\ Cardinality(MessagesAbout("margin", "pat", 2023, 2023)) = 1

(***************************************************************************)
(* One oracle call (test.py 218-224, 299-326).  pc is the position in       *)
(* _gemini_pdf_call, msgs the outcome of every attempt made so far, reply   *)
(* the value returned or the error raised.                                 *)
(***************************************************************************)
\* three backticks
FENCE == T("FENCE")

\* raw.strip of backticks
RECURSIVE StripTicks(_)
StripTicks(s) ==
    IF Len(s) > 0 /\ s[1] = FENCE THEN StripTicks(Tail(s))
    ELSE IF Len(s) > 0 /\ s[Len(s)] = FENCE THEN StripTicks(SubSeq(s, 1, Len(s) - 1))
    ELSE s

\* the branch of json_strip_fences for text that starts with a fence, given
\* the text without its backticks and surrounding blanks
AfterFence(r) ==
    IF Len(r) > 0 /\ r[1].w = "json" THEN Strip(Tail(r)) ELSE r

json_strip_fences(raw) ==
    IF Len(Strip(raw)) > 0 /\ Strip(raw)[1] = FENCE
    THEN AfterFence(Strip(StripTicks(Strip(raw))))
    ELSE Strip(raw)

\* json.loads: the one JSON document of the texts below is "{}"; the value,
\* or nothing where JSONDecodeError is raised
json_loads(raw) == IF Strip(raw) = << T("{}") >> THEN << "object" >> ELSE << >>

\* resp.text: bare JSON; JSON in a fence labelled JSON; JSON in a bare
\* fence; a sentence before the fence; a refusal; no text at all
ResponseTexts ==
    { << T("{}") >>,
      << FENCE, Up("json"), NL, T("{}"), NL, FENCE, NL >>,
      << FENCE, NL, T("{}"), NL, FENCE >>,
      Words(<< Cap("here"), T("it"), T("is") >>) \o << NL, FENCE, T("json"), NL, T("{}"), NL, FENCE >>,
      Words(<< Cap("i"), T("cannot"), T("read"), T("this") >>),
      << >> }

\* str(e) of the exceptions generate_content raises, as words
ErrorTexts ==
    { << "[SSL:", "SSLV3_ALERT_BAD_RECORD_MAC]", "sslv3", "alert", "bad", "record", "mac" >>,
      << "httpx.ReadError" >>,
      << "ReadError" >>,
      << "ReadTimeout" >>,
      << "503", "UNAVAILABLE" >>,
      << >> }

\* str(e) of json.JSONDecodeError
JsonErrorText == << "Expecting", "value" >>

\* variant: every failure counts as transient
IsTransient_any(msg) == TRUE

\* ("SSLV3_ALERT_BAD_RECORD_MAC" in msg) or ("httpx.ReadError" in msg) or
\* ("ReadError" in msg)
IsTransient(msg) ==
    \E i \in 1..Len(msg) :
        msg[i] \in { "SSLV3_ALERT_BAD_RECORD_MAC]", "httpx.ReadError", "ReadError" }

\* the attempts the loop `for attempt in range(1, 4)` allows
MAX_ATTEMPTS == 3

InitCall ==
    /\ driver = "test_main"
    /\ doc = << PageIncome >>
    /\ pc = "open"
    /\ y = Year(EmptyMetrics)
    /\ yPre = Year(EmptyMetrics)
    /\ reply = << >>
    /\ outcome = "none"
    /\ repairs = << >>
    /\ years = << >>
    /\ msgs = << >>
    /\ files = << >>

\* with open(pdf_path, "rb") as f: pdf_bytes = f.read() -- or OSError
ReadPdf ==
    /\ pc = "open"
    /\ \/ /\ pc' = "attempt"
          /\ UNCHANGED << reply, outcome >>
       \/ /\ pc' = "raised"
          /\ reply' = << << "OSError" >> >>
          /\ outcome' = "read_error"
    /\ UNCHANGED << files, driver, doc, y, yPre, repairs, years, msgs >>

\* the except branch of the attempt that failed with message msg, the
\* attempts made before it being msgs
AttemptFailed(msg) ==
    /\ msgs' = Append(msgs, [kind |-> "error", msg |-> msg])
    /\ IF ~IsTransient(msg) \/ Len(msgs) + 1 >= MAX_ATTEMPTS
       THEN /\ pc' = "raised"
            /\ reply' = << msg >>
            /\ outcome' = "raised"
       ELSE /\ pc' = "sleep"
            /\ UNCHANGED << reply, outcome >>

\* one pass of the loop body: generate_content answers with a text, which is
\* parsed and returned, or the call or the parsing raises
Attempt ==
    /\ pc = "attempt"
    /\ \/ \E text \in ResponseTexts :
             IF Len(json_loads(json_strip_fences(text))) > 0
             THEN /\ msgs' = Append(msgs, [kind |-> "response", msg |-> text])
                  /\ pc' = "returned"
                  /\ reply' = json_loads(json_strip_fences(text))
                  /\ outcome' = "returned"
             ELSE AttemptFailed(JsonErrorText)
       \/ \E msg \in ErrorTexts : AttemptFailed(msg)
    /\ UNCHANGED << files, driver, doc, y, yPre, repairs, years >>

\* time.sleep(0.8 * attempt), then the next pass
Backoff ==
    /\ pc = "sleep"
    /\ pc' = "attempt"
    /\ UNCHANGED << files, driver, doc, y, yPre, reply, outcome, repairs, years, msgs >>

NextCall ==
    \/ ReadPdf
    \/ Attempt
    \/ Backoff

\* reading the file, the request and the sleep all come back: no step that
\* is possible is put off for ever
SpecCall == InitCall /\ [][NextCall]_vars /\ WF_vars(NextCall)

\* the failures the claim calls transient transport errors
TransportErrors ==
    { << "[SSL:", "SSLV3_ALERT_BAD_RECORD_MAC]", "sslv3", "alert", "bad", "record", "mac" >>,
      << "httpx.ReadError" >>,
      << "ReadError" >> }

\* the call has ended, with a value or an error
CallEnded == pc \in { "returned", "raised" }

\* the retry rules of the claim, over the attempts made so far: at most 3
\* attempts; an attempt after the first follows a transient failure; any
\* other failure is the last attempt and is the error raised; a third
\* failure is raised; an answer that parses ends the call
RetryPolicy ==
    /\ Len(msgs) <= 3
    /\ \A k \in 2..Len(msgs) :
          msgs[k - 1].kind = "error" /\ msgs[k - 1].msg \in TransportErrors
    /\ \A k \in 1..Len(msgs) :
          /\ (msgs[k].kind = "error" /\ msgs[k].msg \notin TransportErrors)
                => (k = Len(msgs) /\ pc = "raised" /\ reply = << msgs[k].msg >>)
          /\ (msgs[k].kind = "error" /\ k = 3)
                => (pc = "raised" /\ reply = << msgs[k].msg >>)
          /\ msgs[k].kind = "response"
                => (k = Len(msgs) /\ pc = "returned" /\ reply = << "object" >>)
    /\ pc = "raised" /\ Len(msgs) > 0 => msgs[Len(msgs)].kind = "error"

\* C14 as stated: an oracle call makes at most 3 attempts; a further attempt
\* is made only after a transient transport error; any other failure
\* propagates at once; a third transient failure is raised; and the call
\* always ends with a result or an error after 1 to 3 attempts.
C14_AsStated ==
    /\ [](RetryPolicy /\ (CallEnded => Len(msgs) \in 1..3))
    /\ <>CallEnded

\* C14, amended: the retry rules hold, the call always ends, and it ends
\* after 1 to 3 attempts unless the PDF could not be read, in which case the
\* error of the read is raised before any attempt.
C14_Retry ==
    /\ [](/\ RetryPolicy
          /\ CallEnded =>
                IF outcome = "read_error"
                THEN Len(msgs) = 0 /\ pc = "raised"
                ELSE Len(msgs) \in 1..3)
    /\ <>CallEnded

\* three transient failures in a row: the third one was raised
C14_Witness ==
    /\ pc = "raised"
    /\ Len(msgs) = 3
    /\ \A k \in 1..3 : msgs[k].kind = "error" /\ msgs[k].msg \in TransportErrors
    /\ reply = << msgs[3].msg >>

\* the stage that follows each targeted re-extraction in the loop body
StageAfter(stage) ==
    CASE stage = "eps" -> "networth"
      [] stage = "networth" -> (IF driver = "test_main" THEN "repair2" ELSE "attrib")
      [] stage = "attrib" -> (IF driver = "test_main" THEN "emit" ELSE "repair2")

\* C15: an exception raised during an EPS-only, net-worth-only or
\* PAT-attributable re-extraction is swallowed: right after it the year
\* record is what it was before the step and is not yet in the list, the
\* loop body is at the stage that follows the step, and from there the
\* record is emitted.
C15_Swallowed ==
    /\ [](outcome = "raised" =>
            /\ y = yPre
            /\ Len(years) < Len(files)
            /\ \E stage \in { "eps", "networth", "attrib" } : pc = StageAfter(stage))
    /\ (outcome = "raised") ~> (pc = "emitted" /\ years[Len(years)] = y)

\* the PAT-attributable extraction of the command-line driver has raised:
\* the record is unchanged and the emission is next
C15_Witness ==
    /\ driver = "test_main"
    /\ outcome = "raised"
    /\ pc = "emit"
    /\ y = yPre
    /\ Gt(y.metrics["pat"].value, Zero)

(***************************************************************************)
(* A whole run over the files of PDF_FILES (test.py 788-893) or pdfPaths    *)
(* (bridge script 125-219): the loop body above for each file, then the     *)
(* sort and the cross-year checks.  Each file is given with what the full   *)
(* extraction makes of it.                                                 *)
(***************************************************************************)
\* files per run
MaxFiles == 2

\* a file that exists and is extracted to the record r
GoodFile(r) == [status |-> "ok", extracted |-> r]

\* a clean record of the year l; a record on which nothing was found; a path
\* with no file; a file on which the extraction raises
RunFile ==
    { GoodFile([Year(BaseMetrics) EXCEPT !.year_label = l]) : l \in YearLabels }
      \cup { GoodFile(Year(EmptyMetrics)),
             [status |-> "missing", extracted |-> Year(EmptyMetrics)],
             [status |-> "fatal", extracted |-> Year(EmptyMetrics)] }

\* runs of up to MaxFiles files; the record on which nothing was found, whose
\* re-extractions branch widely, only in a run of its own
RunFiles ==
    { fs \in SeqsUpTo(RunFile, MaxFiles) :
        /\ Len(fs) > 0
        /\ Len(fs) > 1 => \A i \in 1..Len(fs) : fs[i] # GoodFile(Year(EmptyMetrics)) }

InitRun ==
    /\ driver \in { "test_main", "bridge" }
    /\ doc = << PageBalance, PageIncome >>
    /\ pc = "next_file"
    /\ y = Year(EmptyMetrics)
    /\ yPre = Year(EmptyMetrics)
    /\ reply = << >>
    /\ outcome = "none"
    /\ repairs = << >>
    /\ years = << >>
    /\ msgs = << >>
    /\ files \in RunFiles

\* every file before the current one has added one record to years
CurrentFile == files[Len(years) + 1]

\* `if not os.path.exists(p)`: test.py raises FileNotFoundError, the bridge
\* script writes {"ok": false, "error": ...} and returns
FileMissing ==
    /\ pc = "next_file"
    /\ Len(years) < Len(files)
    /\ CurrentFile.status = "missing"
    /\ pc' = "aborted"
    /\ outcome' = "file_missing"
    /\ UNCHANGED << files, driver, doc, y, yPre, reply, repairs, years, msgs >>

\* gemini_extract_from_pdf raises: nothing catches it in test.py, the bridge
\* script writes {"ok": false, "error": ...} and returns
ExtractionFailed ==
    /\ pc = "next_file"
    /\ Len(years) < Len(files)
    /\ CurrentFile.status = "fatal"
    /\ pc' = "aborted"
    /\ outcome' = "extraction_failed"
    /\ UNCHANGED << files, driver, doc, y, yPre, reply, repairs, years, msgs >>

\* y = gemini_extract_from_pdf(p)
ExtractRun ==
    /\ pc = "next_file"
    /\ Len(years) < Len(files)
    /\ CurrentFile.status = "ok"
    /\ y' = CurrentFile.extracted
    /\ yPre' = y
    /\ pc' = "normalize"
    /\ reply' = << >>
    /\ outcome' = "none"
    /\ UNCHANGED << files, driver, doc, repairs, years, msgs >>

\* the highlighting of the file just processed ends the loop body
NextFile ==
    /\ pc = "emitted"
    /\ pc' = "next_file"
    /\ UNCHANGED << files, driver, doc, y, yPre, reply, outcome, repairs, years, msgs >>

\* variant: the loop may be left before every file has been processed
LoopDone_early ==
    /\ pc = "next_file"
    /\ Len(years) <= Len(files)
    /\ pc' = "collected"
    /\ UNCHANGED << files, driver, doc, y, yPre, reply, outcome, repairs, years, msgs >>

\* the loop over the files is exhausted
LoopDone ==
    /\ pc = "next_file"
    /\ Len(years) = Len(files)
    /\ pc' = "collected"
    /\ UNCHANGED << files, driver, doc, y, yPre, reply, outcome, repairs, years, msgs >>

NextRun ==
    \/ FileMissing
    \/ ExtractionFailed
    \/ ExtractRun
    \/ Normalize
    \/ Repair1
    \/ EpsFix
    \/ NetworthFix
    \/ Repair2
    \/ PatAttrib
    \/ Emit
    \/ NextFile
    \/ LoopDone
    \/ SortYears
    \/ RunYoyChecks
    \/ RunEpsBasisChecks
    \/ RunPatEpsChecks

\* the run has ended: an uncaught exception or the error reply, the last
\* cross-year check of test.py, the output of the bridge script
RunOver == pc \in { "aborted", "checked" } \/ (pc = "sorted" /\ driver = "bridge")

\* the control position moves on; every step of NextRun is such a step, and
\* one is possible wherever the run is not over
Advance ==
    /\ ~RunOver
    /\ pc' \in { "next_file", "normalize", "repair1", "eps", "networth", "repair2", "attrib",
                 "emit", "emitted", "collected", "sorted", "yoy_checked", "basis_checked",
                 "checked", "aborted" } \ { pc }

\* the run is sequential code whose calls return: it does not stay for ever
\* at a position from which it can go on
SpecRun == InitRun /\ [][NextRun]_vars /\ WF_pc(Advance)

\* the PAT-attributable step of the loop body has just run
AttribJustRan ==
    \/ driver = "test_main" /\ pc = "emit"
    \/ driver = "bridge" /\ pc = "repair2"

\* the value of the reply in crore: a value of 1,000,000,000 or more is
\* taken as rupees
AttribInCrore ==
    IF Ge(reply[1].value, Dec(1, 9)) THEN Div(reply[1].value, FromInt(10000000))
    ELSE reply[1].value

\* C16: the PAT-attributable extraction is attempted for every year, whether
\* or not the EPS or net-worth repair was due (the step is never skipped);
\* its result is attached as the derived field only if its rescaled value is
\* positive, and then with that value; and the step leaves every primary
\* metric, the pat metric's value and citation among them, as it was.
C16_PatAttrib ==
    AttribJustRan =>
        /\ outcome \in { "raised", "replied" }
        /\ y.metrics = yPre.metrics
        /\ yPre.attrib = << >>
        /\ IF outcome = "replied" /\ Gt(AttribInCrore, Zero)
           THEN /\ Len(y.attrib) = 1
                /\ y.attrib[1].value = AttribInCrore
                /\ y.attrib[1].snippet = reply[1].snippet
           ELSE y.attrib = << >>

\* a year whose EPS and net worth needed no repair: the reply of
\* 1,000,000,000 rupees was attached as 100 crore and the pat metric kept
C16_Witness ==
    /\ driver = "test_main"
    /\ pc = "emit"
    /\ outcome = "replied"
    /\ ~needs_eps_fix(yPre) /\ ~needs_networth_fix(yPre)
    /\ reply[1].value = Dec(1, 9)
    /\ Len(y.attrib) = 1
    /\ y.attrib[1].value = FromInt(100)
    /\ y.metrics["pat"] = yPre.metrics["pat"]
    /\ Gt(y.metrics["pat"].value, Zero)

\* C17: a failure while processing one file - a missing file or an extraction
\* that raises - does not abort the processing of the other files of the
\* run: when the run is over, every file that exists and can be extracted
\* has its year record among the records produced.
C17_AsStated ==
    RunOver =>
        \A i \in 1..Len(files) :
            files[i].status = "ok" =>
                \E k \in 1..Len(years) : years[k].year_label = files[i].extracted.year_label

\* the first of two files is missing (or its extraction raises): the run is
\* over and the second file, which is in order, was never processed
C17_SecondFileLost ==
    /\ pc = "aborted"
    /\ Len(files) = 2
    /\ files[1].status \in { "missing", "fatal" }
    /\ files[2].status = "ok"
    /\ years = << >>

\* C18: oracle schema errors never raise: a reply that is not well-formed
\* JSON does not make the oracle call, and with it the extraction, end in an
\* error (the reply degrades to zero-valued metrics instead).
C18_AsStated ==
    \A k \in 1..Len(msgs) :
        (msgs[k].kind = "error" /\ msgs[k].msg = JsonErrorText) => pc # "raised"

\* the first reply was not JSON: the call has raised the parser's error
\* without a further attempt
C18_MalformedRaised ==
    /\ pc = "raised"
    /\ Len(msgs) = 1
    /\ msgs[1].msg = JsonErrorText
    /\ reply = << JsonErrorText >>

\* a cross-year check is running or has run
InChecks == pc \in { "yoy_checked", "basis_checked", "checked" }

\* the part of the order both drivers share: extraction, normalization, page
\* repair, EPS, net worth; emission after the last stage; and the checks only
\* on the sorted list of the records of all files
SharedOrder ==
    /\ pc' = "normalize" => pc = "next_file"
    /\ pc = "normalize" => pc' = "repair1" /\ y' = [y EXCEPT !.metrics = normalize_units_in_place(y.metrics)]
    /\ pc = "repair1" => pc' = "eps"
    /\ pc = "eps" => pc' = "networth"
    /\ pc = "emit" => pc' = "emitted" /\ years' = Append(years, y)
    /\ pc' = "sorted" => pc = "collected" /\ Len(years) = Len(files)
    /\ InChecks' =>
          /\ pc \in { "sorted", "yoy_checked", "basis_checked" }
          /\ years' = years
          /\ Len(years) = Len(files)
          /\ \A i, j \in 1..Len(years) : i < j => years[i].year_label <= years[j].year_label

\* C19 as stated: for each document the stages run in the order unit
\* normalization, page repair, the targeted re-extractions (EPS, net worth,
\* PAT-attributable), page repair again, and the cross-year checks run only
\* after all years have been aggregated and ordered by year label.
C19_AsStated ==
    [][/\ SharedOrder
       /\ pc = "networth" => pc' = "attrib"
       /\ pc = "attrib" => pc' = "repair2"
       /\ pc = "repair2" => pc' = "emit"]_vars

\* C19, amended: the bridge script runs the second page repair after all
\* three re-extractions; test.py runs it after the EPS and net-worth
\* re-extractions and before the PAT-attributable one, which is the last
\* stage before the record is emitted.
C19_StageOrder ==
    [][/\ SharedOrder
       /\ pc = "networth" => pc' = (IF driver = "bridge" THEN "attrib" ELSE "repair2")
       /\ pc = "attrib" => pc' = (IF driver = "bridge" THEN "repair2" ELSE "emit")
       /\ pc = "repair2" => pc' = (IF driver = "bridge" THEN "emit" ELSE "attrib")]_vars

\* a run of test.py over two files, the later year first: both records were
\* processed and sorted before the last cross-year check ran
C19_Witness ==
    /\ driver = "test_main"
    /\ pc = "checked"
    /\ Len(files) = 2
    /\ files[1].extracted.year_label = 2023
    /\ files[2].extracted.year_label = 2022
    /\ Len(years) = 2
    /\ years[1].year_label = 2022
    /\ years[2].year_label = 2023

\* a mark of the record as it is read: yy.get(key, "") or "unknown"
MarkOrUnknown(field) == IF Len(field) = 0 THEN << T("unknown") >> ELSE field

\* C20: in every year record that is emitted, eps_basis is one of basic,
\* diluted, unknown and eps_scope is one of total, continuing, unknown,
\* whatever the EPS-only oracle replied.
C20_AsStated ==
    \A k \in 1..Len(years) :
        /\ MarkOrUnknown(years[k].eps_basis)
              \in { << T("basic") >>, << T("diluted") >>, << T("unknown") >> }
        /\ MarkOrUnknown(years[k].eps_scope)
              \in { << T("total") >>, << T("continuing") >>, << T("unknown") >> }

\* the EPS-only oracle replied with scope "discontinued" and a snippet that
\* names the basis: the record was emitted with that scope
C20_ForeignScopeEmitted ==
    /\ pc = "emitted"
    /\ Len(years) = 1
    /\ years[1].eps_scope = << T("discontinued") >>
    /\ years[1].eps_basis \in { << T("basic") >>, << T("diluted") >> }

\* what does hold: the basis mark of an emitted record is basic or diluted
\* or absent, and the scope mark is absent or the reply's scope in lower case
\* without surrounding blanks, "total" where the reply had none
C20_MarksStored ==
    \A k \in 1..Len(years) :
        /\ years[k].eps_basis \in { << >>, << T("basic") >>, << T("diluted") >> }
        /\ years[k].eps_scope
              \in { << >> } \cup { FieldOrDefault(sc, << T("total") >>) : sc \in ScopeFields }

(***************************************************************************)
(* C21: the cross-year checks only read                                    *)
(***************************************************************************)
\* a cross-year check is about to run
CheckDue == pc \in { "sorted", "yoy_checked", "basis_checked" }

\* what the check that is due returns for a list of years
DueCheckResult(ys) ==
    CASE pc = "sorted" -> run_yoy_checks(ys)
      [] pc = "yoy_checked" -> run_eps_basis_checks(ys)
      [] OTHER -> run_pat_eps_checks(ys, DefaultMultipliers, DefaultTol)

\* C21: run_yoy_checks, run_eps_basis_checks and run_pat_eps_checks modify
\* no field of any year record and not the order of the list they are
\* handed, and each yields only its list of messages, which is what the
\* check makes of that list alone, whichever of the others ran before.
C21_ReadOnly ==
    [][CheckDue =>
          /\ years' = years
          /\ << y, yPre, doc, reply, outcome, repairs, files, driver >>'
                = << y, yPre, doc, reply, outcome, repairs, files, driver >>
          /\ msgs' = DueCheckResult(years')]_vars

\* all three checks ran on a list of three years and the last of them
\* returned messages, one of them for a pair it could not validate
C21_Witness ==
    /\ pc = "checked"
    /\ Len(years) = 3
    /\ Len(msgs) = 2
    /\ \E i \in 1..2 : msgs[i].kind = "cannot_validate"
    /\ Len(run_yoy_checks(years)) > 0

(***************************************************************************)
(* dedupe_years (bridge script 33-61) on lists with repeated labels        *)
(***************************************************************************)
\* a record of the year l with revenue v on page p and net worth w
DedupeYear(l, v, p, w) ==
    [Year([BaseMetrics EXCEPT !["revenue"].value = v, !["revenue"].page = p,
                              !["networth"].value = w])
        EXCEPT !.year_label = l]

\* revenue found with two different figures or not at all, net worth found
\* or not
DedupeYears ==
    { DedupeYear(l, vp[1], vp[2], w) :
        l \in { 2023, 2024 },
        vp \in { << Zero, 0 >>, << FromInt(1000), 1 >>, << FromInt(1200), 2 >> },
        w \in { Zero, FromInt(5000) } }

\* the bridge script at line 210: files holds, file by file, the record its
\* loop appended to years
InitDedupe ==
    /\ driver = "bridge"
    /\ doc = << PageBalance, PageIncome >>
    /\ pc = "collected"
    /\ y = Year(EmptyMetrics)
    /\ yPre = Year(EmptyMetrics)
    /\ reply = << >>
    /\ outcome = "none"
    /\ repairs = << >>
    /\ files \in SeqsUpTo({ GoodFile(r) : r \in DedupeYears }, MaxYears)
    /\ years = [i \in 1..Len(files) |-> files[i].extracted]
    /\ msgs = << >>

NextDedupe == SortYears

SpecDedupe == InitDedupe /\ [][NextDedupe]_vars

\* the list dedupe_years was handed
Collected == [i \in 1..Len(files) |-> files[i].extracted]

\* the positions of the records of label l in ys, and those among them whose
\* metric k is non-zero
WithLabel(ys, l) == { i \in 1..Len(ys) : ys[i].year_label = l }

NonZeroAt(ys, l, k) == { i \in WithLabel(ys, l) : ys[i].metrics[k].value # Zero }

Last(S) == CHOOSE i \in S : \A j \in S : j <= i

First(S) == CHOOSE i \in S : \A j \in S : i <= j

\* C22 as stated: dedupe_years returns exactly one record per distinct year
\* label of its input, and for each metric of a duplicated label keeps the
\* entry whose value is non-zero, or the later-seen entry when both entries
\* are non-zero.
C22_AsStated ==
    pc = "sorted" =>
        /\ \A j \in 1..Len(years) : WithLabel(Collected, years[j].year_label) # { }
        /\ \A l \in { 2023, 2024 } :
              WithLabel(Collected, l) # { } =>
                  /\ Cardinality(WithLabel(years, l)) = 1
                  /\ \A k \in MetricSet :
                        NonZeroAt(Collected, l, k) # { } =>
                            years[Last(WithLabel(years, l))].metrics[k]
                               = Collected[Last(NonZeroAt(Collected, l, k))].metrics[k]

\* two files gave the year 2024, the first with revenue 1000 from page 1, the
\* second with revenue 1200 from page 2: the one record kept has the first
C22_EarlierKept ==
    /\ pc = "sorted"
    /\ Len(files) = 2
    /\ Collected[1].year_label = 2024 /\ Collected[2].year_label = 2024
    /\ Collected[1].metrics["revenue"].value = FromInt(1000)
    /\ Collected[2].metrics["revenue"].value = FromInt(1200)
    /\ Len(years) = 1
    /\ years[1].metrics["revenue"] = Collected[1].metrics["revenue"]

\* what does hold: one record per label, and for each metric the first
\* entry seen that is non-zero, the first entry seen when all are zero
C22_FirstNonZeroKept ==
    pc = "sorted" =>
        /\ \A j \in 1..Len(years) : WithLabel(Collected, years[j].year_label) # { }
        /\ \A l \in { 2023, 2024 } :
              WithLabel(Collected, l) # { } =>
                  /\ Cardinality(WithLabel(years, l)) = 1
                  /\ \A k \in MetricSet :
                        years[Last(WithLabel(years, l))].metrics[k]
                           = Collected[First(IF NonZeroAt(Collected, l, k) # { }
                                             THEN NonZeroAt(Collected, l, k)
                                             ELSE WithLabel(Collected, l))].metrics[k]

(***************************************************************************)
(* The page gate and the two page searches (test.py 242-258, 368-430) on   *)
(* their own: one call on a document                                       *)
(***************************************************************************)
\* "Earnings per" / "share basic 5.20" / "Total" / "Equity 5,000": phrases
\* broken over lines, as text extracted from a PDF has them
PageBrokenLines ==
    Words(<< Cap("earnings"), T("per") >>) \o << NL >> \o Words(<< T("share"), T("basic") >>)
      \o << SP >> \o Txt520 \o << NL, Cap("total"), NL, Cap("equity"), SP >> \o Txt5000

\* "Other Equity 4,000" / "attributable to owners 100" / "basic 5.20": notes
\* that name a keyword or an anchor of a metric but not both
PageEquityNotes ==
    SnipOtherEquity \o << NL >> \o Words(<< T("attributable"), T("to"), T("owners") >>)
      \o << SP, T("1"), T("0"), T("0"), NL, T("basic"), SP >> \o Txt520

\* the first 80 characters of the review of operations
ReviewTo80 ==
    Words(<< Cap("revenue"), T("from"), T("operations"), T("increased"), T("substantially"),
             T("notwithstanding"), T("unfavourable"), T("and") >>)

\* a page of running text, 160 characters
PageReview ==
    ReviewTo80 \o << SP >>
      \o Words(<< T("macroeconomic"), T("circumstances"), T("surrounding"), T("international"),
                  T("pharmaceutical"), T("subsidiary") >>)

LookupDocs ==
    { d \in SeqsUpTo({ PageIncome, PageBalance, PageBrokenLines, PageEquityNotes, PageReview },
                   MaxPages) :
        Len(d) >= 1 }

\* the call and what it returned: found is << >> for None or False, << p >>
\* for page p or for True on page p
Lookup(m, by, sn, val, p, found) ==
    [metric |-> m, by |-> by, snippet |-> sn, value |-> val, page |-> p, found |-> found]

InitLookup ==
    /\ driver = "test_main"
    /\ doc \in LookupDocs
    /\ pc = "lookup"
    /\ y = Year(EmptyMetrics)
    /\ yPre = Year(EmptyMetrics)
    /\ reply = << >>
    /\ outcome = "none"
    /\ repairs = << >>
    /\ years = << >>
    /\ msgs = << >>
    /\ files = << >>

\* snippets handed to the gate: none, one that names the owners, one that
\* does not
GateSnippets == { << >>, SnipPat, SnipOtherIncome }

\* page_passes_constraints(metric, doc[p - 1].get_text("text"), snippet)
GatePage ==
    /\ pc = "lookup"
    /\ \E m \in MetricSet, p \in 1..Len(doc), sn \in GateSnippets :
          repairs' = << Lookup(m, "gate", sn, Zero, p,
                               IF page_passes_constraints(m, doc[p], sn)
                               THEN << p >> ELSE << >>) >>
    /\ pc' = "looked_up"
    /\ UNCHANGED << files, driver, doc, y, yPre, reply, outcome, years, msgs >>

\* none of the phrases occurs in the text, whatever the case of the letters
NoneOccurs(phrases, text) ==
    \A i \in 1..Len(phrases) : ~Contains(Lower(text), Lower(phrases[i]))

\* the gate was asked about a page and said no
GateSaidNo(r) == r.by = "gate" /\ r.found = << >>

\* C23 as stated: page_passes_constraints returns false for every metric
\* whenever the page text contains (case-insensitively) none of the metric's
\* keywords, regardless of anchors, and returns false whenever the metric
\* defines anchors and the page text contains none of them.
C23_AsStated ==
    \A i \in 1..Len(repairs) :
        repairs[i].by = "gate" =>
            /\ NoneOccurs(KEYWORDS(repairs[i].metric), doc[repairs[i].page])
                  => GateSaidNo(repairs[i])
            /\ (/\ repairs[i].metric \in { "eps", "pat", "networth" }
                /\ NoneOccurs(ANCHORS(repairs[i].metric), doc[repairs[i].page]))
                  => GateSaidNo(repairs[i])

\* C23, amended: the same of the page text with its runs of whitespace
\* (line breaks included) collapsed to single blanks
C23_Gate ==
    \A i \in 1..Len(repairs) :
        repairs[i].by = "gate" =>
            /\ NoneOccurs(KEYWORDS(repairs[i].metric), norm_spaces(doc[repairs[i].page]))
                  => GateSaidNo(repairs[i])
            /\ (/\ repairs[i].metric \in { "eps", "pat", "networth" }
                /\ NoneOccurs(ANCHORS(repairs[i].metric), norm_spaces(doc[repairs[i].page])))
                  => GateSaidNo(repairs[i])

\* the gate said no for net worth to a page that names "Equity", a keyword,
\* but not "total equity", the anchor
C23_Witness ==
    /\ pc = "looked_up"
    /\ repairs[1].by = "gate" /\ repairs[1].metric = "networth"
    /\ doc[repairs[1].page] = PageEquityNotes
    /\ ~NoneOccurs(KEYWORDS("networth"), norm_spaces(PageEquityNotes))
    /\ repairs[1].found = << >>

\* the gate said no for PAT to the same page, which names the anchors
\* "owners" and "attributable" but no keyword of PAT
C23_WitnessNoKeyword ==
    /\ pc = "looked_up"
    /\ repairs[1].by = "gate" /\ repairs[1].metric = "pat"
    /\ doc[repairs[1].page] = PageEquityNotes
    /\ ~NoneOccurs(ANCHORS("pat"), norm_spaces(PageEquityNotes))
    /\ NoneOccurs(KEYWORDS("pat"), norm_spaces(PageEquityNotes))
    /\ repairs[1].found = << >>

\* "EPS: 5.20": 9 characters, printed on the statement of profit and loss
SnipShort == << Up("eps"), T(":"), SP >> \o Txt520

\* "  EBITDA   3 ": 13 characters, 8 after normalisation
SnipPadded == << SP, SP, Up("ebitda"), SP, SP, SP, T("3"), SP >>

\* " Total  Equity" / "5,000": the balance-sheet line with stray whitespace
SnipSpaced == << SP, Cap("total"), SP, SP, Cap("equity"), NL >> \o Txt5000

\* the first 80 characters of the review of operations, then words that are
\* not in the document (100 characters)
SnipDrift80 ==
    ReviewTo80 \o << SP >> \o Words(<< T("managerial"), T("optimism") >>)

\* the same 80 characters, then more than 80 that are not in the document
\* (171 characters)
SnipDrift160 ==
    ReviewTo80 \o << SP >>
      \o Words(<< T("disproportionately"), T("unrepresentative"), T("counterproductive"),
                  T("misunderstandings"), T("characteristically") >>)

\* a snippet of 99 characters that departs from the document in its third word
SnipDriftEarly ==
    Words(<< Cap("revenue"), T("from"), T("operation"), T("increased"), T("substantially"),
             T("notwithstanding"), T("unfavourable"), T("and"), T("managerial"), T("optimism") >>)

FindSnippets ==
    { << >>, SnipShort, SnipPadded, SnipSpaced, SnipEbitda, SnipPat, SnipOtherEquity,
      SnipDrift80, SnipDrift160, SnipDriftEarly }

\* find_best_page_by_snippet(doc, metric, snippet)
FindBySnippet ==
    /\ pc = "lookup"
    /\ \E m \in MetricSet, sn \in FindSnippets :
          repairs' = << Lookup(m, "snippet", sn, Zero, 0,
                               find_best_page_by_snippet(doc, m, sn)) >>
    /\ pc' = "looked_up"
    /\ UNCHANGED << files, driver, doc, y, yPre, reply, outcome, years, msgs >>

\* s[:n] for a text without ellipsis characters, by characters: the symbols
\* of s that end within the first n characters
Prefix(s, n) ==
    SubSeq(s, 1, Cardinality({ k \in 1..Len(s) : CharLen(SubSeq(s, 1, k)) <= n }))

\* the pages the claim lets find_best_page_by_snippet return for the
\* normalised snippet s
PagesForSnippet(m, s) ==
    { p \in 1..Len(doc) :
        /\ page_passes_constraints(m, doc[p], s)
        /\ \E n \in { 80, 120, 160, CharLen(s) } :
              Contains(norm_spaces(doc[p]), Prefix(s, n)) }

\* found is the lowest page of the set Q, none when Q is empty
LowestOf(found, Q) ==
    IF Q = { } THEN found = << >>
    ELSE Len(found) = 1 /\ found[1] \in Q /\ \A q \in Q : found[1] <= q

\* C24: find_best_page_by_snippet returns none for every snippet shorter
\* than 10 characters after whitespace normalization; otherwise it returns
\* the lowest-numbered page that passes the metric gate and whose normalized
\* text contains verbatim the full snippet or one of its 160/120/80-character
\* prefixes, and none when no page qualifies; a page that fails the metric
\* gate is never returned.
C24_BySnippet ==
    \A i \in 1..Len(repairs) :
        repairs[i].by = "snippet" =>
            /\ IF CharLen(norm_spaces(repairs[i].snippet)) < 10
               THEN repairs[i].found = << >>
               ELSE LowestOf(repairs[i].found,
                             PagesForSnippet(repairs[i].metric, norm_spaces(repairs[i].snippet)))
            /\ \A p \in 1..Len(doc) :
                  repairs[i].found = << p >> =>
                      page_passes_constraints(repairs[i].metric, doc[p], repairs[i].snippet)

\* the 171-character snippet, which is in the document neither as a whole
\* nor by its first 160 or 120 characters, was found on page 2 by its first
\* 80, page 1 being the balance sheet
C24_Witness ==
    /\ pc = "looked_up"
    /\ doc = << PageBalance, PageReview >>
    /\ repairs[1].by = "snippet" /\ repairs[1].snippet = SnipDrift160
    /\ repairs[1].metric = "revenue"
    /\ CharLen(SnipDrift160) > 160
    /\ ~Contains(norm_spaces(PageReview), Prefix(SnipDrift160, 120))
    /\ repairs[1].found = << 2 >>

\* a 9-character snippet printed in the document was not searched for
C24_WitnessShort ==
    /\ pc = "looked_up"
    /\ doc[1] = PageIncome
    /\ repairs[1].by = "snippet" /\ repairs[1].snippet = SnipShort
    /\ repairs[1].metric = "eps"
    /\ Contains(PageIncome, SnipShort)
    /\ repairs[1].found = << >>

\* values searched for: none, figures printed in the documents with Western
\* grouping or with decimals, a figure that rounds to a printed one, a
\* fraction below one hundredth
FindValues ==
    { Zero, FromInt(1234567), FromInt(5000), FromInt(100), Dec(52, -1), Dec(519, -2),
      Dec(4, -3) }

\* find_best_page_by_number(doc, metric, val)
FindByNumber ==
    /\ pc = "lookup"
    /\ \E m \in MetricSet, val \in FindValues :
          repairs' = << Lookup(m, "number", << >>, val, 0,
                               find_best_page_by_number(doc, m, val)) >>
    /\ pc' = "looked_up"
    /\ UNCHANGED << files, driver, doc, y, yPre, reply, outcome, years, msgs >>

NextLookup ==
    \/ GatePage
    \/ FindBySnippet
    \/ FindByNumber

SpecLookup == InitLookup /\ [][NextLookup]_vars

\* a text given character by character
Chars(cs) == [i \in 1..Len(cs) |-> T(cs[i])]

\* the renderings of the values searched for: the integer nearest to the
\* value bare, with groups of three, with the South-Asian groups (three, then
\* twos), and the value to one and to two decimals without trailing zeros
Renderings(val) ==
    CASE val = FromInt(1234567) ->
           { Chars(<< "1", "2", "3", "4", "5", "6", "7" >>),
             Chars(<< "1", ",", "2", "3", "4", ",", "5", "6", "7" >>),
             Chars(<< "1", "2", ",", "3", "4", ",", "5", "6", "7" >>) }
      [] val = FromInt(5000) ->
           { Chars(<< "5", "0", "0", "0" >>), Chars(<< "5", ",", "0", "0", "0" >>) }
      [] val = FromInt(100) -> { Chars(<< "1", "0", "0" >>) }
      [] val = Dec(52, -1) -> { Chars(<< "5" >>), Chars(<< "5", ".", "2" >>) }
      [] val = Dec(519, -2) ->
           { Chars(<< "5" >>), Chars(<< "5", ".", "2" >>), Chars(<< "5", ".", "1", "9" >>) }
      [] val = Dec(4, -3) -> { Chars(<< "0" >>) }
      [] OTHER -> { }

\* the pages the claim lets find_best_page_by_number return
PagesForNumber(m, val) ==
    { p \in 1..Len(doc) :
        /\ page_passes_constraints(m, doc[p], << >>)
        /\ \E c \in Renderings(val) : Contains(doc[p], c) }

\* C25: find_best_page_by_number returns none when the value is zero;
\* otherwise it returns the lowest-numbered page that passes the metric gate
\* and whose text literally contains one of the value's candidate renderings
\* (bare integer, 1- and 2-decimal forms, Western 3-digit grouping,
\* South-Asian grouping), and none when no gated page contains a candidate.
C25_ByNumber ==
    \A i \in 1..Len(repairs) :
        repairs[i].by = "number" =>
            IF repairs[i].value = Zero THEN repairs[i].found = << >>
            ELSE LowestOf(repairs[i].found, PagesForNumber(repairs[i].metric, repairs[i].value))

\* revenue 1234567 was found on page 2, where it is printed as 1,234,567,
\* page 1 being the balance sheet
C25_Witness ==
    /\ pc = "looked_up"
    /\ doc = << PageBalance, PageIncome >>
    /\ repairs[1].by = "number" /\ repairs[1].metric = "revenue"
    /\ repairs[1].value = FromInt(1234567)
    /\ repairs[1].found = << 2 >>

\* the figure 100 is printed on the statement of profit and loss, which does
\* not pass the gate of net worth: not found
C25_WitnessGated ==
    /\ pc = "looked_up"
    /\ doc = << PageIncome >>
    /\ repairs[1].by = "number" /\ repairs[1].metric = "networth"
    /\ repairs[1].value = FromInt(100)
    /\ Contains(PageIncome, Chars(<< "1", "0", "0" >>))
    /\ repairs[1].found = << >>

(***************************************************************************)
(* C26: does the EPS re-extraction settle the EPS                          *)
(***************************************************************************)
\* apply_eps_only has just accepted the reply of the EPS-only oracle
EpsJustAccepted == EpsReplied /\ EpsGate(reply[1])

\* C26 as stated: whenever apply_eps_only accepts a replacement,
\* needs_eps_fix evaluated on the updated year record returns false (the
\* accepted EPS has a positive value and a snippet that is not diluted-only),
\* so a second repair round would not be triggered.
C26_AsStated == EpsJustAccepted => ~needs_eps_fix(y)

\* the oracle replied with the diluted EPS of total operations, labelled as
\* the prompt asks; the reply was accepted and the record still needs the fix
C26_DilutedAccepted ==
    /\ EpsJustAccepted
    /\ reply[1].basis = << T("diluted") >>
    /\ reply[1].scope = << T("total") >>
    /\ y.metrics["eps"].snippet = SnipEpsDilutedTotal
    /\ y.eps_basis = << T("diluted") >>
    /\ Gt(y.metrics["eps"].value, Zero)
    /\ needs_eps_fix(y)

\* what does hold: an accepted EPS is positive and its snippet names a
\* basis, so that the record needs the fix again exactly if the snippet is
\* diluted-only
C26_OnlyDilutedRemains ==
    EpsJustAccepted =>
        /\ Gt(y.metrics["eps"].value, Zero)
        /\ needs_eps_fix(y) <=> eps_snippet_is_diluted(y.metrics["eps"].snippet)

(***************************************************************************)
(* C27: which pairs of records the cross-year checks evaluate              *)
(***************************************************************************)
\* the messages of a sequence of message lists, in order
RECURSIVE Flatten(_)
Flatten(lists) ==
    IF Len(lists) = 0 THEN << >> ELSE lists[1] \o Flatten(Tail(lists))

\* the positions i of the pairs (ys[i], ys[i + 1])
AdjacentPositions(ys) == 1..(IF Len(ys) = 0 THEN 0 ELSE Len(ys) - 1)

\* what each check returns if it evaluates exactly the pairs of adjacent
\* positions
PositionalYoy(ys) ==
    Flatten([i \in AdjacentPositions(ys) |-> YoyPair(ys[i], ys[i + 1])])

PositionalBasis(ys) ==
    Flatten([i \in AdjacentPositions(ys) |-> BasisPair(ys[i], ys[i + 1])])

PositionalPatEps(ys) ==
    [i \in AdjacentPositions(ys) |->
        PairMessage(ShareRow(ys[i]), ShareRow(ys[i + 1]), DefaultMultipliers, DefaultTol)]

\* C27 as stated: for any sequence of year records sorted by year label,
\* run_yoy_checks, run_eps_basis_checks and run_pat_eps_checks all evaluate
\* exactly the pairs (years_sorted[i-1], years_sorted[i]) for i = 1..n-1,
\* also when two records carry the same label; no check ever compares a
\* record with itself or skips a record.
C27_AsStated ==
    /\ pc = "yoy_checked" => msgs = PositionalYoy(years)
    /\ pc = "basis_checked" => msgs = PositionalBasis(years)
    /\ pc = "checked" => msgs = PositionalPatEps(years)

\* two records labelled 2023, EPS 5.2 and then EPS 10 with "10.00 5.20" in
\* its snippet: the pair of positions agrees (5.20 against 5.2), but the
\* check held the second record against itself and warned about 5.20
\* against 10
C27_SelfCompared ==
    /\ pc = "basis_checked"
    /\ Len(years) = 2
    /\ years[1].year_label = 2023 /\ years[2].year_label = 2023
    /\ years[1].metrics["eps"].value = Dec(52, -1)
    /\ years[2].metrics["eps"].value = FromInt(10)
    /\ years[2].metrics["eps"].snippet = SnipEpsPrior5
    /\ PositionalBasis(years) = << >>
    /\ Len(msgs) = 1
    /\ msgs[1].prev_eps = FromInt(10)
    /\ msgs[1].prior = Dec(52, -1)

\* what does hold: run_yoy_checks and run_pat_eps_checks evaluate the pairs
\* of adjacent positions, and so does run_eps_basis_checks on a list
\* without repeated labels
C27_PositionalButBasis ==
    /\ pc = "yoy_checked" => msgs = PositionalYoy(years)
    /\ pc = "checked" => msgs = PositionalPatEps(years)
    /\ (/\ pc = "basis_checked"
        /\ \A i, j \in 1..Len(years) : years[i].year_label = years[j].year_label => i = j)
          => msgs = PositionalBasis(years)

(***************************************************************************)
(* C28: the share-base test of the EPS basis check against the implied-    *)
(* share check                                                             *)
(***************************************************************************)
\* the pairs of adjacent positions with distinct labels that
\* is_share_base_change_year takes for a change of the share base
SuppressedPairs(ys) ==
    { i \in AdjacentPositions(ys) :
        /\ ys[i].year_label # ys[i + 1].year_label
        /\ is_share_base_change_year(ys[i], ys[i + 1]) }

C28_InfoNotSuppressed ==
    /\ pc = "checked"
    /\ Len(years) = 2
    /\ years[1].year_label # years[2].year_label
    /\ msgs[1].level = "INFO"
    /\ SuppressedPairs(years) = { }

(***************************************************************************)
(* C29: what repair_sources leaves alone                                   *)
(***************************************************************************)
\* the record before the repair with the citation pages of the record after
WithPagesOf(before, after) ==
    [before EXCEPT !.metrics =
        [m \in MetricSet |-> [before.metrics[m] EXCEPT !.page = after.metrics[m].page]]]

\* C29: repair_sources modifies nothing except the page field of citations
\* whose page was <= 0 or beyond the document's page count: every metric
\* value, snippet, section, the year label and derived fields, and every
\* citation whose page already lies in 1..page count are unchanged, and no
\* outcome is recorded for a metric whose page was already in range.
C29_Frame ==
    RepairJustRan =>
        /\ y = WithPagesOf(yPre, y)
        /\ \A m \in MetricSet :
              (yPre.metrics[m].page \in 1..Len(doc)) =>
                  /\ y.metrics[m].page = yPre.metrics[m].page
                  /\ OutcomesOf(m) = { }
        /\ \A i \in 1..Len(repairs) : repairs[i].metric \in MetricSet

\* in a document of two pages the revenue, cited with a page out of range,
\* was moved to page 2, while the other citations, all of page 1, stayed,
\* that of the PAT included, which is printed on page 2 only
C29_Witness ==
    /\ RepairJustRan
    /\ Len(doc) = 2
    /\ PageOutOfRange(doc, yPre.metrics["revenue"].page)
    /\ y.metrics["revenue"].page = 2
    /\ yPre.metrics["pat"].page = 1
    /\ find_best_page_by_snippet(doc, "pat", yPre.metrics["pat"].snippet) = << 2 >>
    /\ y.metrics["pat"].page = 1
    /\ Len(repairs) = 1

(***************************************************************************)
(* gemini_extract_from_pdf (test.py 328-354).  Each _gemini_pdf_call is one *)
(* step that ends as the call above ends: with the parsed reply, or with   *)
(* the error it raises after its own attempts.  msgs is the list of the    *)
(* oracle calls made, reply the value last returned.                       *)
(***************************************************************************)
\* str(e) of what _gemini_pdf_call can raise: the last error of the loop or
\* the OSError of the read
CallErrors == ErrorTexts \cup { JsonErrorText, << "OSError" >> }

\* the reply to LOCATOR_PROMPT: pages named for the statements, none named,
\* pages beyond the document, or JSON that is not an object
LocatorReplies ==
    { [object |-> TRUE, pages |-> << 2 >>],
      [object |-> TRUE, pages |-> << 1, 2 >>],
      [object |-> TRUE, pages |-> << >>],
      [object |-> TRUE, pages |-> << 7 >>],
      [object |-> FALSE, pages |-> << >>] }

\* the reply to EXTRACTION_PROMPT
ExtractionReplies == { Year(BaseMetrics), Year(EmptyMetrics) }

\* page_map of _subset_pdf for the located pages and their neighbours
PageMap(pages) ==
    { p \in 1..Len(doc) : \E i \in 1..Len(pages) : p \in { pages[i] - 1, pages[i], pages[i] + 1 } }

\* one oracle call as an entry of msgs
Call(kind, status, error, page_map) ==
    [kind |-> kind, status |-> status, error |-> error, page_map |-> page_map]

InitExtract ==
    /\ driver = "test_main"
    /\ doc = << PageBalance, PageIncome >>
    /\ pc = "locate"
    /\ y = Year(EmptyMetrics)
    /\ yPre = Year(EmptyMetrics)
    /\ reply = << >>
    /\ outcome = "none"
    /\ repairs = << >>
    /\ years = << >>
    /\ msgs = << >>
    /\ files = << >>

\* loc = gemini_locate_pages(pdf_path) or {}; the page lists are read with
\* loc.get, which raises if loc is not an object
LocatePages ==
    /\ pc = "locate"
    /\ \/ \E e \in CallErrors :
             /\ msgs' = Append(msgs, Call("locate", "raised", e, { }))
             /\ pc' = "fallback"
             /\ reply' = reply
       \/ \E loc \in LocatorReplies :
             /\ msgs' = Append(msgs, Call("locate", "returned", << >>, { }))
             /\ pc' = IF loc.object THEN "subset" ELSE "fallback"
             /\ reply' = << loc >>
    /\ UNCHANGED << files, driver, doc, y, yPre, outcome, repairs, years >>

\* variant: an error of the subset extraction is not caught
ExtractSubset_propagating ==
    /\ pc = "subset"
    /\ \/ \E e \in CallErrors :
             /\ msgs' = Append(msgs, Call("subset", "raised", e, PageMap(reply[1].pages)))
             /\ pc' = "raised"
             /\ outcome' = "raised"
             /\ UNCHANGED << reply, y >>
       \/ \E r \in ExtractionReplies :
             /\ msgs' = Append(msgs, Call("subset", "returned", << >>, PageMap(reply[1].pages)))
             /\ pc' = "returned"
             /\ outcome' = "returned"
             /\ reply' = << r >>
             /\ y' = r
    /\ UNCHANGED << files, driver, doc, yPre, repairs, years >>

\* subset_path, page_map = _subset_pdf(pdf_path, expanded);
\* return _gemini_pdf_call(subset_path, EXTRACTION_PROMPT, page_map=page_map)
ExtractSubset ==
    /\ pc = "subset"
    /\ \/ \E e \in CallErrors :
             /\ msgs' = Append(msgs, Call("subset", "raised", e, PageMap(reply[1].pages)))
             /\ pc' = "fallback"
             /\ UNCHANGED << reply, outcome, y >>
       \/ \E r \in ExtractionReplies :
             /\ msgs' = Append(msgs, Call("subset", "returned", << >>, PageMap(reply[1].pages)))
             /\ pc' = "returned"
             /\ outcome' = "returned"
             /\ reply' = << r >>
             /\ y' = r
    /\ UNCHANGED << files, driver, doc, yPre, repairs, years >>

\* except Exception: return _gemini_pdf_call(pdf_path, EXTRACTION_PROMPT)
ExtractFull ==
    /\ pc = "fallback"
    /\ \/ \E e \in CallErrors :
             /\ msgs' = Append(msgs, Call("full", "raised", e, { }))
             /\ pc' = "raised"
             /\ outcome' = "raised"
             /\ UNCHANGED << reply, y >>
       \/ \E r \in ExtractionReplies :
             /\ msgs' = Append(msgs, Call("full", "returned", << >>, { }))
             /\ pc' = "returned"
             /\ outcome' = "returned"
             /\ reply' = << r >>
             /\ y' = r
    /\ UNCHANGED << files, driver, doc, yPre, repairs, years >>

NextExtract ==
    \/ LocatePages
    \/ ExtractSubset
    \/ ExtractFull

\* every oracle call comes back, with a reply or an error
SpecExtract == InitExtract /\ [][NextExtract]_vars /\ WF_vars(NextExtract)

\* the k-th oracle call of the run
IsCall(k, kind, status) == msgs[k].kind = kind /\ msgs[k].status = status

\* C30: gemini_extract_from_pdf falls back to a full-document extraction
\* whenever the page-locate call or the subset extraction fails with any
\* exception; it raises only when the full-document extraction also fails,
\* and it returns the subset extraction's result without a further oracle
\* call when that extraction succeeds.
C30_Fallback ==
    /\ [](/\ \A k \in 1..Len(msgs) :
                /\ (msgs[k].kind \in { "locate", "subset" } /\ msgs[k].status = "raised")
                      => IF k = Len(msgs) THEN pc = "fallback" ELSE msgs[k + 1].kind = "full"
                /\ IsCall(k, "subset", "returned")
                      => k = Len(msgs) /\ pc = "returned" /\ reply = << y >>
                /\ msgs[k].kind = "full" => k = Len(msgs)
          /\ pc = "raised" => IsCall(Len(msgs), "full", "raised")
          /\ pc = "returned" =>
                \/ IsCall(Len(msgs), "subset", "returned")
                \/ IsCall(Len(msgs), "full", "returned"))
    /\ (pc = "fallback") ~> (pc \in { "returned", "raised" } /\ msgs[Len(msgs)].kind = "full")

\* the locate call answered, the subset extraction raised a non-transient
\* error, and the full-document extraction returned the record
C30_Witness ==
    /\ pc = "returned"
    /\ Len(msgs) = 3
    /\ IsCall(1, "locate", "returned")
    /\ IsCall(2, "subset", "raised") /\ msgs[2].error = << "503", "UNAVAILABLE" >>
    /\ msgs[2].page_map = { 1, 2 }
    /\ IsCall(3, "full", "returned")
    /\ y = Year(BaseMetrics)

\* the subset extraction answered: two oracle calls and no third
C30_WitnessSubset ==
    /\ pc = "returned"
    /\ Len(msgs) = 2
    /\ IsCall(2, "subset", "returned")
    /\ y = Year(BaseMetrics)

====
